---- MODULE Spec2Model ----
(***************************************************************************)
(* Verification model of the AT-1000 market-data core.                     *)
(*                                                                         *)
(*   - OrderBook / BinanceBookTop   (workers/market_data/binance_book_top) *)
(*   - BarAggregator / BinanceTradesCVD                                    *)
(*                                  (workers/market_data/binance_trades_cvd)*)
(*   - get_guards                   (backend/routers/engine, guards)       *)
(*   - get_basis                    (backend/services/basis)               *)
(*                                                                         *)
(*   - run(), the reconnecting loop of the single-feed workers            *)
(*   - LiquidationsWorker          (workers/market_data/liquidations_multi)*)
(*   - Redis stream append with maxlen (every producer's xadd)             *)
(*   - helius_webhook              (backend/routers/webhooks)              *)
(*   - BybitOIFunding              (workers/market_data/bybit_oi_funding)  *)
(*   - DriftLiqMapScanner          (workers/onchain/drift_liq_map)         *)
(*   - get_liq_map                 (backend/routers/market)                *)
(*   - place_order, cancel_order, kill_switch (backend/routers/engine)     *)
(*                                                                         *)
(* Floats are modelled by exact integers or by rationals [num, den];       *)
(* every quantity used here is small enough to be exact in a double.       *)
(***************************************************************************)
EXTENDS Integers, Sequences, FiniteSets, TLC

(***************************************************************************)
(* Bounds of the model.                                                    *)
(***************************************************************************)
MaxPrice == 2
MaxQty == 2
\* levels carried by one depth diff, bids and asks together
MaxLevels == 1
MaxClock == 2
MaxPublished == 2
\* trades fed to one run of the trades worker
MaxTrades == 3
\* calls of BinanceTradesCVD.stop
MaxStops == 2
\* wall clock of the guard endpoints, in seconds
MaxGuardClock == 9
\* entries appended to a topic beyond its maxlen
MaxOverflow == 3
\* entries one node of a Redis stream holds (stream-node-max-entries)
MaxNodeEntries == 2
\* liquidation events handed to the liquidations worker
MaxLiqs == 2
\* backoff sleeps of one venue feed without a connection in between
MaxVenueBackoffs == 2
\* failed connection attempts in a row of a single-feed worker
MaxFails == 8
\* seconds a connection is followed for after it was made
MaxUptime == 2
\* submissions to the webhook endpoint
MaxSubmissions == 2
\* expiries of the dedup set
MaxExpiries == 1
\* cycles of the Bybit poller
MaxPolls == 3
\* accounts one scan of the Drift scanner processes
MaxAccounts == 2
\* estimates held by the liquidation-map stream or by its persisted copy
MaxEstimates == 3
\* the largest limit a liquidation-map request asks for
MaxLimit == 2
\* orders placed with the engine
MaxOrders == 2
\* entries of the engine's activity log
MaxActivity == 4
\* Websocket clients connected to the engine at once
MaxClients == 1
\* requests for /guards each concurrent handler takes
MaxGuardCalls == 2
\* messages of the book worker that raise
MaxDropped == 2

(***************************************************************************)
(* Program constants.                                                      *)
(***************************************************************************)
DEPTH_BPS_THRESHOLD == 10
BOOK_MAXLEN == 1000
\* publish_interval = 1.0; the wall clock of the model counts whole seconds
PUBLISH_INTERVAL == 1
\* trade_time.replace(second=0, microsecond=0): the window is one minute, in ms
MINUTE_MS == 60000
TRADES_MAXLEN == 10000
\* len(self.bars_buffer) >= 60: the hourly Parquet rollup
BARS_FLUSH_LEN == 60
\* guard thresholds and cache lifetime (routers/engine.py, routers/guards.py)
SPREAD_MAX_BPS == 10
MIN_DEPTH_USD == 50000
MAX_FUNDING_APR == 300
MAX_LIQ_5M == 10
CACHE_TTL == 5
\* reconnection config, the same in every worker
RECONNECT_DELAY_MIN == 1
RECONNECT_DELAY_MAX == 60
LIQ_MAXLEN == 10000
\* len(self.liq_buffer) >= 100
LIQ_FLUSH_LEN == 100
\* timedelta(minutes=5), in milliseconds
FIVE_MIN_MS == 300000
\* len(self.event_buffer) >= 100
HOOK_FLUSH_LEN == 100
HOOK_MAXLEN == 10000
\* POLL_INTERVAL = 60 seconds, in milliseconds
POLL_INTERVAL_MS == 60000
\* len(self.snapshots_buffer) >= 60
SNAPSHOTS_FLUSH_LEN == 60

VARIABLES
    \* ---- OrderBook / BinanceBookTop
    bids,               \* OrderBook.bids : price -> quantity
    asks,               \* OrderBook.asks : price -> quantity
    last_publish_time,  \* BinanceBookTop.last_publish_time
    book_now,           \* wall clock read by process_update
    book_stream,        \* Redis stream market:solusdt:book
    seen_b,             \* history: last quantity a diff carried per bid price
    seen_a,             \* history: last quantity a diff carried per ask price
    book_dropped,       \* history: messages of the book worker that raised
    \* ---- BarAggregator / BinanceTradesCVD
    aggregator,         \* BinanceTradesCVD.aggregator (a BarAggregator)
    bars_buffer,        \* BinanceTradesCVD.bars_buffer
    cvd_redis,          \* BinanceTradesCVD.redis: "none", "open" or "closed"
    cvd_pc,             \* main(): "init", "running", "failed" or "stopped"
    stop_calls,         \* calls of stop() so far
    trades_stream,      \* Redis stream market:solusdt:trades
    parquet,            \* rows of the day's Parquet file
    xadd_log,           \* history: every redis.xadd issued by publish_bar
    trade_log,          \* history: every trade process_trade was given
    \* ---- get_guards (routers/engine.py, routers/guards.py), get_basis
    guards_impl,        \* the router serving /guards: "engine" or "guards"
    guard_now,          \* wall clock read by the handlers
    guards_cache,       \* engine.guards_cache
    guards_cache_time,  \* engine.guards_cache_time
    basis_cache,        \* basis._basis_cache
    basis_cache_time,   \* basis._basis_cache_time
    cache,              \* guards.cache : key -> value
    cache_timestamps,   \* guards.cache_timestamps : key -> time
    guard_response,     \* the snapshot the last call returned
    guard_reads,        \* history: what became of each read of the last call
    gg_pc,              \* handler of engine.get_guards -> "idle", "reading"
                        \* or "pricing"
    gg_local,           \* handler -> the locals it holds across get_basis
    gg_response,        \* handler -> the snapshot it last returned
    gg_calls,           \* handler -> requests it has taken
    \* ---- a Redis stream written with xadd(..., maxlen=N)
    topic,              \* the entries retained, oldest first, each the
                        \* ordinal of the append that wrote it
    topic_appended,     \* history: appends made so far
    \* ---- LiquidationsWorker and the reader of its stream
    liq_pc,             \* venue -> "connecting", "connected" or "sleeping"
    reconnect_delays,   \* LiquidationsWorker.reconnect_delays
    pending,            \* venue -> items of the message being processed
    liq_stream,         \* Redis stream market:solusdt:liquidations
    liq_buffer,         \* len(LiquidationsWorker.liq_buffer)
    liq_parquet,        \* rows written to the Parquet files
    liq_now,            \* wall clock, in milliseconds
    backoffs,           \* history: venue -> sleeps since its delay was reset
    liq_appended,       \* history: the time of every append to the stream
    liq_handled,        \* history: events the handlers buffered in this run
    \* ---- run() of BinanceTradesCVD, BinanceBookTop, OKXUSDCPrice
    ws_pc,              \* "connecting", "connected", "sleeping" or "exited"
    ws_running,         \* self.running
    reconnect_delay,    \* self.reconnect_delay
    ws_fails,           \* history: failed attempts since the last connection
    ws_connected_once,  \* history: a connection has been made
    ws_uptime,          \* history: seconds the latest connection has lasted
    \* ---- helius_webhook / HeliusWebhookHandler (routers/webhooks.py)
    hook_secret,        \* HELIUS_WEBHOOK_SECRET, "" when not configured
    hook_pc,            \* request -> "idle", "checking", "adding", "publishing"
    hook_queue,         \* request -> events process_events has still to handle
    hook_signed,        \* request -> its submission carried a valid signature
    hook_counts,        \* history: per call of process_events, the count it
                        \* keeps and the events it appended
    hook_mismatch,      \* history: request -> its signature is not the digest
                        \* under the configured secret
    hook_response,      \* request -> status of its last response, 0 for none
    dedup_set,          \* Redis set onchain:drift:event_ids
    dedup_window,       \* history: expiries of the dedup set so far
    drift_stream,       \* Redis stream onchain:drift:events
    event_buffer,       \* len(HeliusWebhookHandler.event_buffer)
    hook_checked,       \* history: hook_signed of every is_duplicate call
    hook_submitted,     \* history: submissions received so far
    \* ---- BybitOIFunding (workers/market_data/bybit_oi_funding.py)
    funding_stream,     \* Redis stream market:solusdt:funding
    snapshots_buffer,   \* BybitOIFunding.snapshots_buffer
    funding_parquet,    \* rows written to the Parquet files
    poll_log,           \* history: the three API responses of the last cycle
    polls,              \* history: cycles run so far
    poll_pc,            \* where run() of the poller is: "poll" or "sleep"
    poll_running,       \* BybitOIFunding.running
    poll_outcome,       \* history: how the last poll_once ended
    compared,           \* what both /guards handlers answer to the same topics
    \* ---- BarAggregator on its own
    bar_agg,            \* the aggregator
    bar_trades,         \* history: the trades added since the last reset
    bar_last,           \* history: the last bar finalize_bar returned, with its trades
    \* ---- DriftLiqMapScanner (workers/onchain/drift_liq_map.py)
    liq_map_stream,     \* Redis stream onchain:drift:liq_map
    scanned,            \* history: accounts one scan has processed
    est_input,          \* history: arguments of the last estimate computed
    est_calc,           \* history: what calculate_liquidation_price returned
    est_output,         \* history: what process_account returned
    \* ---- get_liq_map (routers/market.py)
    lm_query,           \* history: the last request and what it found stored
    lm_response,        \* the list the last request returned
    \* ---- place_order, cancel_order, kill_switch (routers/engine.py)
    orders,             \* engine.orders : order id -> status
    activity_log,       \* engine.activity_log, the type of each entry
    intent_stream,      \* Redis stream engine:intents, the order ids
    place_pc,           \* the place_order in flight: its id and its await
    kill_pc,            \* the kill_switch in flight, awaiting its broadcast
    eng_last,           \* history: the last response sent
    active_clients,     \* number of websocket clients in active_clients
    killed              \* history: the orders the kill switch cancelled

bookVars == <<bids, asks, last_publish_time, book_now, book_stream, seen_b, seen_a,
              book_dropped>>
cvdVars == <<aggregator, bars_buffer, cvd_redis, cvd_pc, stop_calls, trades_stream,
             parquet, xadd_log, trade_log>>

guardVars == <<guards_impl, guard_now, guards_cache, guards_cache_time, basis_cache,
               basis_cache_time, cache, cache_timestamps, guard_response, guard_reads,
               gg_pc, gg_local, gg_response, gg_calls>>

topicVars == <<topic, topic_appended>>
runVars == <<ws_pc, ws_running, reconnect_delay, ws_fails, ws_connected_once, ws_uptime>>
liqVars == <<liq_pc, reconnect_delays, pending, liq_stream, liq_buffer, liq_parquet,
             liq_now, backoffs, liq_appended, liq_handled>>
compareVars == <<compared>>
barVars == <<bar_agg, bar_trades, bar_last>>
pollVars == <<funding_stream, snapshots_buffer, funding_parquet, poll_log, polls,
              poll_pc, poll_running, poll_outcome>>
scanVars == <<liq_map_stream, scanned, est_input, est_calc, est_output>>
lmapVars == <<lm_query, lm_response>>
engineVars == <<orders, activity_log, intent_stream, place_pc, kill_pc, eng_last,
                active_clients, killed>>
hookVars == <<hook_secret, hook_pc, hook_queue, hook_signed, hook_mismatch, hook_response, dedup_set,
              dedup_window, drift_stream, event_buffer, hook_checked, hook_submitted,
              hook_counts>>

\* What each component leaves alone: every variable of the other components
except_bookVars == <<cvdVars, guardVars, topicVars, runVars, liqVars, compareVars, barVars, pollVars, scanVars, lmapVars, engineVars, hookVars>>
except_cvdVars == <<bookVars, guardVars, topicVars, runVars, liqVars, compareVars, barVars, pollVars, scanVars, lmapVars, engineVars, hookVars>>
except_guardVars == <<bookVars, cvdVars, topicVars, runVars, liqVars, compareVars, barVars, pollVars, scanVars, lmapVars, engineVars, hookVars>>
except_topicVars == <<bookVars, cvdVars, guardVars, runVars, liqVars, compareVars, barVars, pollVars, scanVars, lmapVars, engineVars, hookVars>>
except_runVars == <<bookVars, cvdVars, guardVars, topicVars, liqVars, compareVars, barVars, pollVars, scanVars, lmapVars, engineVars, hookVars>>
except_liqVars == <<bookVars, cvdVars, guardVars, topicVars, runVars, compareVars, barVars, pollVars, scanVars, lmapVars, engineVars, hookVars>>
except_compareVars == <<bookVars, cvdVars, guardVars, topicVars, runVars, liqVars, barVars, pollVars, scanVars, lmapVars, engineVars, hookVars>>
except_barVars == <<bookVars, cvdVars, guardVars, topicVars, runVars, liqVars, compareVars, pollVars, scanVars, lmapVars, engineVars, hookVars>>
except_pollVars == <<bookVars, cvdVars, guardVars, topicVars, runVars, liqVars, compareVars, barVars, scanVars, lmapVars, engineVars, hookVars>>
except_scanVars == <<bookVars, cvdVars, guardVars, topicVars, runVars, liqVars, compareVars, barVars, pollVars, lmapVars, engineVars, hookVars>>
except_lmapVars == <<bookVars, cvdVars, guardVars, topicVars, runVars, liqVars, compareVars, barVars, pollVars, scanVars, engineVars, hookVars>>
except_engineVars == <<bookVars, cvdVars, guardVars, topicVars, runVars, liqVars, compareVars, barVars, pollVars, scanVars, lmapVars, hookVars>>
except_hookVars == <<bookVars, cvdVars, guardVars, topicVars, runVars, liqVars, compareVars, barVars, pollVars, scanVars, lmapVars, engineVars>>

vars == <<bookVars, cvdVars, guardVars, topicVars, runVars, liqVars, compareVars, barVars, pollVars, scanVars, lmapVars, engineVars, hookVars>>

(***************************************************************************)
(* Generic helpers.                                                        *)
(***************************************************************************)
Min(a, b) == IF a <= b THEN a ELSE b
Max(a, b) == IF a >= b THEN a ELSE b

SetMax(S) == CHOOSE x \in S : \A y \in S : y <= x
SetMin(S) == CHOOSE x \in S : \A y \in S : x <= y

\* Sequences over S of length 0..n
SeqsUpTo(S, n) == UNION {[1..k -> S] : k \in 0..n}

\* The last n elements of s.  The book and bar streams below never hold more
\* than a few entries, far from their maxlen, so no trimming acts on them;
\* trimming itself is modelled by Xadd.
LastN(s, n) == IF Len(s) <= n THEN s ELSE SubSeq(s, Len(s) - n + 1, Len(s))

\* dict.pop(k, None)
DictPop(d, k) == [x \in (DOMAIN d) \ {k} |-> d[x]]
\* d[k] = v
DictSet(d, k, v) == [x \in (DOMAIN d) \cup {k} |-> IF x = k THEN v ELSE d[x]]

EmptyDict == [x \in {} |-> 0]

\* Optional[float]: None is <<>>, a value x is <<x>>
None == <<>>
Some(x) == <<x>>
\* Python truthiness of an Optional[float]: None and 0.0 are falsy
Truthy(o) == o # None /\ o[1] # 0

(***************************************************************************)
(* OrderBook                                                               *)
(***************************************************************************)
Prices == 1..MaxPrice
Qtys == 0..MaxQty
Level == [price : Prices, qty : Qtys]
LevelLists == SeqsUpTo(Level, MaxLevels)
\* A depthUpdate message: data['b'] and data['a']
Diffs ==
    UNION {{[b |-> x, a |-> y] : x \in [1..k -> Level], y \in [1..(n - k) -> Level]} :
           <<n, k>> \in {nk \in (0..MaxLevels) \X (0..MaxLevels) : nk[2] <= nk[1]}}

\* ApplyLevels without the qty == 0 branch: a zero level is stored, not removed
RECURSIVE ApplyLevels_StoreZero(_, _)
ApplyLevels_StoreZero(side, levels) ==
    IF levels = <<>> THEN side
    ELSE ApplyLevels_StoreZero(DictSet(side, Head(levels).price, Head(levels).qty), Tail(levels))

\* One side of OrderBook.update: the loop over data['b'] (or data['a'])
RECURSIVE ApplyLevels(_, _)
ApplyLevels(side, levels) ==
    IF levels = <<>> THEN side
    ELSE LET l == Head(levels)
             next == IF l.qty = 0
                     THEN DictPop(side, l.price)
                     ELSE DictSet(side, l.price, l.qty)
         IN ApplyLevels(next, Tail(levels))

\* History of the diffs: the last quantity carried for each price, zero or not
RECURSIVE RecordLevels(_, _)
RecordLevels(seen, levels) ==
    IF levels = <<>> THEN seen
    ELSE RecordLevels(DictSet(seen, Head(levels).price, Head(levels).qty), Tail(levels))

\* OrderBook.get_tob: None when a side is empty, else (best bid, best ask)
HasTob(b, a) == DOMAIN b # {} /\ DOMAIN a # {}
BestBid(b) == SetMax(DOMAIN b)
BestAsk(a) == SetMin(DOMAIN a)

RECURSIVE SumNotional(_, _)
SumNotional(side, S) ==
    IF S = {} THEN 0
    ELSE LET p == CHOOSE x \in S : TRUE
         IN p * side[p] + SumNotional(side, S \ {p})

\* OrderBook.get_depth_10bps with mid_px = mid2 / 2:
\*   price >= mid * (1 - 10/10000)  and  price <= mid * (1 + 10/10000)
BidDepth(b, mid2) ==
    SumNotional(b, {p \in DOMAIN b : p * 2 * 10000 >= mid2 * (10000 - DEPTH_BPS_THRESHOLD)})
AskDepth(a, mid2) ==
    SumNotional(a, {p \in DOMAIN a : p * 2 * 10000 <= mid2 * (10000 + DEPTH_BPS_THRESHOLD)})

\* OrderBook.get_snapshot, for a book with both sides non-empty.
\* mid_px and spread_bps are rationals num/den.
GetSnapshot(b, a) ==
    LET bid_px == BestBid(b)
        ask_px == BestAsk(a)
        mid2 == bid_px + ask_px
    IN [bid_px |-> bid_px, bid_qty |-> b[bid_px],
        ask_px |-> ask_px, ask_qty |-> a[ask_px],
        mid_px |-> [num |-> mid2, den |-> 2],
        spread_bps |-> [num |-> (ask_px - bid_px) * 2 * 10000, den |-> mid2],
        depth_10bps_bid_usd |-> BidDepth(b, mid2),
        depth_10bps_ask_usd |-> AskDepth(a, mid2)]

InitBook ==
    /\ bids = EmptyDict
    /\ asks = EmptyDict
    /\ last_publish_time = 0
    /\ book_now = PUBLISH_INTERVAL
    /\ book_stream = <<>>
    /\ seen_b = EmptyDict
    /\ seen_a = EmptyDict
    /\ book_dropped = 0

\* OrderBook.update(data).  last_update_id is written here and read nowhere
\* in the program; it is left out of the state.
update(data) ==
    /\ bids' = ApplyLevels(bids, data.b)
    /\ asks' = ApplyLevels(asks, data.a)
    /\ seen_b' = RecordLevels(seen_b, data.b)
    /\ seen_a' = RecordLevels(seen_a, data.a)

\* BinanceBookTop.publish_snapshot: XADD with maxlen; a failing xadd is logged
\* and swallowed.  self.redis is set by run() before any message is read.
publish_snapshot(snapshot, xadd_ok) ==
    book_stream' = IF xadd_ok
                   THEN LastN(Append(book_stream, snapshot), BOOK_MAXLEN)
                   ELSE book_stream

\* process_update keeping last_publish_time when the publish fails, so that
\* the next message publishes again
process_update_RetryOnFailure(data, t, xadd_ok) ==
    /\ update(data)
    /\ book_now' = t
    /\ IF t - last_publish_time >= PUBLISH_INTERVAL /\ HasTob(bids', asks')
       THEN /\ publish_snapshot(GetSnapshot(bids', asks'), xadd_ok)
            /\ last_publish_time' = IF xadd_ok THEN t ELSE last_publish_time
       ELSE UNCHANGED <<book_stream, last_publish_time>>

\* process_update without the test on last_publish_time
process_update_Unthrottled(data, t, xadd_ok) ==
    /\ update(data)
    /\ book_now' = t
    /\ IF HasTob(bids', asks')
       THEN /\ publish_snapshot(GetSnapshot(bids', asks'), xadd_ok)
            /\ last_publish_time' = t
       ELSE UNCHANGED <<book_stream, last_publish_time>>

\* BinanceBookTop.process_update(data), the wall clock reading t
process_update(data, t, xadd_ok) ==
    /\ update(data)
    /\ book_now' = t
    /\ IF t - last_publish_time >= PUBLISH_INTERVAL /\ HasTob(bids', asks')
       THEN /\ publish_snapshot(GetSnapshot(bids', asks'), xadd_ok)
            /\ last_publish_time' = t
       ELSE UNCHANGED <<book_stream, last_publish_time>>

\* OrderBook alone: any sequence of update calls
Update ==
    /\ \E data \in Diffs : update(data)
    /\ UNCHANGED <<last_publish_time, book_now, book_stream, book_dropped>>

\* A message of the WebSocket loop of run(): a depthUpdate out of diffs
ProcessUpdateOf(diffs) ==
    /\ Len(book_stream) < MaxPublished
    /\ \E data \in diffs, t \in book_now..Min(book_now + PUBLISH_INTERVAL, MaxClock),
          xadd_ok \in BOOLEAN :
          process_update(data, t, xadd_ok)
    /\ UNCHANGED book_dropped

ProcessUpdate == ProcessUpdateOf(Diffs)

\* A few depth diffs: a bid and an ask level set, changed and removed
BidDiff(price, qty) == [b |-> <<[price |-> price, qty |-> qty]>>, a |-> <<>>]
AskDiff(price, qty) == [b |-> <<>>, a |-> <<[price |-> price, qty |-> qty]>>]
SampleDiffs ==
    {BidDiff(1, 1), BidDiff(1, 2), BidDiff(1, 0), AskDiff(2, 1), AskDiff(2, 2), AskDiff(2, 0)}

ProcessSampleUpdate == ProcessUpdateOf(SampleDiffs)

\* Messages that raise: json.loads rejects the text ("json"), or a level of
\* data['b'] or data['a'] is not a pair of numbers ("bids", "asks").  b and a
\* hold the well-formed levels that come before the malformed one in the
\* order update() walks them: the bids first, then the asks.
MalformedDiffs ==
    {[b |-> <<>>, a |-> <<>>, raises |-> "json"]}
    \cup {[b |-> d.b, a |-> <<>>, raises |-> "bids"] : d \in SampleDiffs}
    \cup {[b |-> d.b, a |-> d.a, raises |-> "asks"] : d \in SampleDiffs}

\* OrderBook.update(data) raising at a malformed level: the levels walked
\* before it have been stored, the others are not reached
update_Raises(data) ==
    /\ bids' = ApplyLevels(bids, data.b)
    /\ asks' = ApplyLevels(asks, data.a)
    /\ seen_b' = RecordLevels(seen_b, data.b)
    /\ seen_a' = RecordLevels(seen_a, data.a)

\* A message of the WebSocket loop of run() that raises: the except clause
\* of process_update (or of the loop, for json.loads) logs it and the loop
\* goes on to the next message
ProcessMalformed ==
    /\ book_dropped < MaxDropped
    /\ book_dropped' = book_dropped + 1
    /\ \E data \in MalformedDiffs : update_Raises(data)
    /\ UNCHANGED <<last_publish_time, book_now, book_stream>>

(***************************************************************************)
(* BarAggregator / BinanceTradesCVD                                        *)
(***************************************************************************)
\* Sample trades: the timestamps are the last millisecond of one minute and
\* the first of the next; an aggTrade of quantity 0 stands for a bar without
\* volume.
TradeTimes == {59999, 60000}
TradePrices == {1, 2}
TradeQtys == {0, 2}
Trades == [timestamp : TradeTimes, price : TradePrices, quantity : TradeQtys,
           is_buyer_maker : BOOLEAN]

\* process_trade lines 247-249: the start of the trade's minute, in ms
MinuteTs(ts) == ts - (ts % MINUTE_MS)

\* BarAggregator.reset
ResetAggregator ==
    [open |-> None, high |-> None, low |-> None, close |-> None,
     volume |-> 0, buy_volume |-> 0, sell_volume |-> 0, value_sum |-> 0,
     trade_count |-> 0, current_minute |-> None]

\* add_trade with the taker side inverted: a buyer-maker trade counted as a buy
AddTrade_SideInverted(agg, trade) ==
    LET price == trade.price
        qty == trade.quantity
    IN [agg EXCEPT
          !.open = IF agg.open = None THEN Some(price) ELSE agg.open,
          !.high = Some(Max(IF Truthy(agg.high) THEN agg.high[1] ELSE price, price)),
          !.low = Some(Min(IF Truthy(agg.low) THEN agg.low[1] ELSE price, price)),
          !.close = Some(price),
          !.volume = agg.volume + qty,
          !.sell_volume = IF trade.is_buyer_maker THEN agg.sell_volume
                          ELSE agg.sell_volume + qty,
          !.buy_volume = IF trade.is_buyer_maker THEN agg.buy_volume + qty
                         ELSE agg.buy_volume,
          !.value_sum = agg.value_sum + price * qty,
          !.trade_count = agg.trade_count + 1]

\* BarAggregator.add_trade
AddTrade(agg, trade) ==
    LET price == trade.price
        qty == trade.quantity
    IN [agg EXCEPT
          !.open = IF agg.open = None THEN Some(price) ELSE agg.open,
          !.high = Some(Max(IF Truthy(agg.high) THEN agg.high[1] ELSE price, price)),
          !.low = Some(Min(IF Truthy(agg.low) THEN agg.low[1] ELSE price, price)),
          !.close = Some(price),
          !.volume = agg.volume + qty,
          !.sell_volume = IF trade.is_buyer_maker THEN agg.sell_volume + qty
                          ELSE agg.sell_volume,
          !.buy_volume = IF trade.is_buyer_maker THEN agg.buy_volume
                         ELSE agg.buy_volume + qty,
          !.value_sum = agg.value_sum + price * qty,
          !.trade_count = agg.trade_count + 1]

\* The Bar built by BarAggregator.finalize_bar(timestamp) when open is not None.
\* vwap is the rational num/den.
FinalizeBar(agg, timestamp) ==
    [timestamp |-> timestamp,
     open |-> agg.open[1], high |-> agg.high[1], low |-> agg.low[1],
     close |-> agg.close[1],
     volume |-> agg.volume, buy_volume |-> agg.buy_volume,
     sell_volume |-> agg.sell_volume,
     cvd |-> agg.buy_volume - agg.sell_volume,
     vwap |-> IF agg.volume > 0 THEN [num |-> agg.value_sum, den |-> agg.volume]
              ELSE [num |-> agg.close[1], den |-> 1],
     trade_count |-> agg.trade_count]

\* BarAggregator used on its own: trades of any non-negative price and
\* quantity are added and the bar is finalized
BarPrices == 0..MaxPrice
BarQtys == {0, MaxQty}
BarTrades ==
    [timestamp : {0}, price : BarPrices, quantity : BarQtys, is_buyer_maker : BOOLEAN]

InitBar ==
    /\ bar_agg = ResetAggregator
    /\ bar_trades = <<>>
    /\ bar_last = None

\* BarAggregator.add_trade(trade); MaxTrades bounds the trades of the open
\* bar and of the last finalized one together
BarAddTrade ==
    /\ Len(bar_trades) + (IF bar_last = None THEN 0 ELSE Len(bar_last[1].trades))
          < MaxTrades
    /\ \E trade \in BarTrades :
          /\ bar_agg' = AddTrade(bar_agg, trade)
          /\ bar_trades' = Append(bar_trades, trade)
    /\ UNCHANGED bar_last

\* BarAggregator.finalize_bar(timestamp) returning a bar: open is not None
BarFinalize ==
    /\ bar_agg.open # None
    /\ bar_last' = Some([bar |-> FinalizeBar(bar_agg, 0), trades |-> bar_trades])
    /\ bar_agg' = ResetAggregator
    /\ bar_trades' = <<>>

\* the comparison of line 254 written as "differs from"
ClosesBar_AnyOtherMinute(minute_ts, current_minute) == minute_ts # current_minute

\* process_trade line 254: a trade of a later minute closes the open bar
ClosesBar(minute_ts, current_minute) == minute_ts > current_minute

InitCvd ==
    /\ aggregator = ResetAggregator
    /\ bars_buffer = <<>>
    /\ cvd_redis = "none"
    /\ cvd_pc = "init"
    /\ stop_calls = 0
    /\ trades_stream = <<>>
    /\ parquet = <<>>
    /\ xadd_log = <<>>
    /\ trade_log = <<>>

\* BinanceTradesCVD.run up to the loop: connect_redis, which raises on failure
\* (main() then goes to its finally clause)
ConnectRedis ==
    /\ cvd_pc = "init"
    /\ \E ok \in BOOLEAN :
          IF ok THEN cvd_redis' = "open" /\ cvd_pc' = "running"
          ELSE cvd_redis' = "none" /\ cvd_pc' = "failed"
    /\ UNCHANGED <<aggregator, bars_buffer, stop_calls, trades_stream, parquet,
                   xadd_log, trade_log>>

\* BinanceTradesCVD.publish_bar followed by bars_buffer.append(bar):
\* the stream and the log of xadd calls after publishing bar
StreamAfterPublish(bar, xadd_ok) ==
    IF cvd_redis = "none" \/ ~xadd_ok THEN trades_stream
    ELSE LastN(Append(trades_stream, bar), TRADES_MAXLEN)
XaddLogAfterPublish(bar) ==
    IF cvd_redis = "none" THEN xadd_log
    ELSE Append(xadd_log, [bar |-> bar, redis |-> cvd_redis])

\* BinanceTradesCVD.save_parquet(bars): appends the rows to the file; a failure
\* is logged and swallowed
ParquetAfterSave(bars, pq_ok) == IF pq_ok THEN parquet \o bars ELSE parquet

\* BinanceTradesCVD.process_trade(trade_data)
process_trade(trade, xadd_ok, pq_ok) ==
    LET minute_ts == MinuteTs(trade.timestamp)
        cm == aggregator.current_minute
        seals == cm # None /\ ClosesBar(minute_ts, cm[1]) /\ aggregator.open # None
        bar == FinalizeBar(aggregator, cm[1])
        \* the aggregator when add_trade is reached
        agg == IF cm = None THEN [aggregator EXCEPT !.current_minute = Some(minute_ts)]
               ELSE IF ClosesBar(minute_ts, cm[1])
                    THEN [ResetAggregator EXCEPT !.current_minute = Some(minute_ts)]
                    ELSE aggregator
        buffered == Append(bars_buffer, bar)
    IN /\ trade_log' = Append(trade_log, trade)
       /\ aggregator' = AddTrade(agg, trade)
       /\ IF seals
          THEN /\ trades_stream' = StreamAfterPublish(bar, xadd_ok)
               /\ xadd_log' = XaddLogAfterPublish(bar)
               /\ IF Len(buffered) >= BARS_FLUSH_LEN
                  THEN /\ parquet' = ParquetAfterSave(buffered, pq_ok)
                       /\ bars_buffer' = <<>>
                  ELSE /\ bars_buffer' = buffered
                       /\ parquet' = parquet
          ELSE UNCHANGED <<trades_stream, xadd_log, bars_buffer, parquet>>

\* A message of the WebSocket loop of run(): an aggTrade
ProcessTradeOf(trades) ==
    /\ cvd_pc = "running"
    /\ Len(trade_log) < MaxTrades
    /\ \E trade \in trades, xadd_ok \in BOOLEAN, pq_ok \in BOOLEAN :
          process_trade(trade, xadd_ok, pq_ok)
    /\ UNCHANGED <<cvd_redis, cvd_pc, stop_calls>>

ProcessTrade == ProcessTradeOf(Trades)

\* The worker one minute short of an hour of bars: the bars of minutes
\* 0 .. BARS_FLUSH_LEN - 2 are buffered and published and the bar of minute
\* BARS_FLUSH_LEN - 1 is open.  trade_log and xadd_log record what happens
\* from here on.
HourTrade(minute, price) ==
    [timestamp |-> minute * MINUTE_MS, price |-> price, quantity |-> 2,
     is_buyer_maker |-> FALSE]
HourAggregator(minute) ==
    AddTrade([ResetAggregator EXCEPT !.current_minute = Some(minute * MINUTE_MS)],
             HourTrade(minute, 1))
HourBars ==
    [k \in 1..(BARS_FLUSH_LEN - 1) |->
        FinalizeBar(HourAggregator(k - 1), (k - 1) * MINUTE_MS)]
InitCvdHour ==
    /\ aggregator = HourAggregator(BARS_FLUSH_LEN - 1)
    /\ bars_buffer = HourBars
    /\ cvd_redis = "open"
    /\ cvd_pc = "running"
    /\ stop_calls = 0
    /\ trades_stream = HourBars
    /\ parquet = <<>>
    /\ xadd_log = <<>>
    /\ trade_log = <<>>
\* Trades just before and at the turn of the hour
HourTrades ==
    [timestamp : {BARS_FLUSH_LEN * MINUTE_MS - 1, BARS_FLUSH_LEN * MINUTE_MS},
     price : TradePrices, quantity : {2}, is_buyer_maker : BOOLEAN]
ProcessHourTrade == ProcessTradeOf(HourTrades)

\* stop() closing the Redis connection before it flushes the open bar
stop_CloseFirst(xadd_ok, pq_ok) ==
    LET flushes == aggregator.open # None
        bar == FinalizeBar(aggregator, aggregator.current_minute[1])
        buffered == IF flushes THEN Append(bars_buffer, bar) ELSE bars_buffer
    IN /\ aggregator' = IF flushes THEN ResetAggregator ELSE aggregator
       /\ trades_stream' = trades_stream
       /\ xadd_log' = IF flushes /\ cvd_redis # "none"
                      THEN Append(xadd_log, [bar |-> bar, redis |-> "closed"])
                      ELSE xadd_log
       /\ bars_buffer' = buffered
       /\ parquet' = IF buffered # <<>> THEN ParquetAfterSave(buffered, pq_ok)
                     ELSE parquet
       /\ cvd_redis' = IF cvd_redis = "none" THEN "none" ELSE "closed"
       /\ cvd_pc' = "stopped"
       /\ stop_calls' = stop_calls + 1

\* BinanceTradesCVD.stop()
stop(xadd_ok, pq_ok) ==
    LET flushes == aggregator.open # None
        bar == FinalizeBar(aggregator, aggregator.current_minute[1])
        buffered == IF flushes THEN Append(bars_buffer, bar) ELSE bars_buffer
    IN /\ aggregator' = IF flushes THEN ResetAggregator ELSE aggregator
       /\ trades_stream' = IF flushes THEN StreamAfterPublish(bar, xadd_ok)
                           ELSE trades_stream
       /\ xadd_log' = IF flushes THEN XaddLogAfterPublish(bar) ELSE xadd_log
       /\ bars_buffer' = buffered
       /\ parquet' = IF buffered # <<>> THEN ParquetAfterSave(buffered, pq_ok)
                     ELSE parquet
       /\ cvd_redis' = IF cvd_redis = "none" THEN "none" ELSE "closed"
       /\ cvd_pc' = "stopped"
       /\ stop_calls' = stop_calls + 1

\* main(): the finally clause calls stop() once run() has ended; a further
\* call is allowed, to cover a second stop()
Stop ==
    /\ cvd_pc \in {"running", "failed", "stopped"}
    /\ stop_calls < MaxStops
    /\ \E xadd_ok \in BOOLEAN, pq_ok \in BOOLEAN : stop(xadd_ok, pq_ok)
    /\ UNCHANGED trade_log

(***************************************************************************)
(* Guard evaluation: routers/engine.py and routers/guards.py               *)
(*                                                                         *)
(* spread_bps is held in tenths of a basis point (the fallback snapshots   *)
(* carry 6.2 and 6.5); depths are USD, funding_apr is percent.  The sample *)
(* values are whole numbers, on which round(x, 2) changes nothing.         *)
(***************************************************************************)
Tenths(x) == x * 10

\* Latest entry of market:solusdt:book as the handlers read it
BookSamples ==
    [spread_bps : {Tenths(SPREAD_MAX_BPS), Tenths(SPREAD_MAX_BPS) + 1},
     depth_10bps_bid_usd : {MIN_DEPTH_USD},
     depth_10bps_ask_usd : {MIN_DEPTH_USD}]
    \cup
    [spread_bps : {Tenths(SPREAD_MAX_BPS)},
     depth_10bps_bid_usd : {MIN_DEPTH_USD - 1, MIN_DEPTH_USD},
     depth_10bps_ask_usd : {MIN_DEPTH_USD - 1, MIN_DEPTH_USD}]
\* Latest entry of market:solusdt:funding
FundingSamples ==
    [funding_apr : {MAX_FUNDING_APR, MAX_FUNDING_APR + 1, 0 - (MAX_FUNDING_APR + 1)},
     oi_notional : {1}]
\* Entries of market:solusdt:liquidations in the last five minutes
LiqSamples == {MAX_LIQ_5M, MAX_LIQ_5M + 1}
\* Latest USDT and USDC prices (None: no entry, or the read failed)
PriceSamples == {<<None, Some(101)>>, <<Some(100), None>>,
                 <<Some(100), Some(100)>>, <<Some(100), Some(101)>>}

Abs(x) == IF x < 0 THEN 0 - x ELSE x

Reason(kind, value) == [kind |-> kind, value |-> value]

\* The liquidation check placed first, so that a later warning overwrites it
StatusAfter_BreachFirst(warned, breached) ==
    IF warned THEN "warning" ELSE IF breached THEN "breach" ELSE "passing"

\* status starts "passing"; the spread, depth and funding checks assign
\* "warning", and the liquidation check, which comes last, assigns "breach"
StatusAfter(warned, breached) ==
    IF breached THEN "breach" ELSE IF warned THEN "warning" ELSE "passing"

\* A reason appended whether or not its threshold was crossed
AppendIf_Always(triggered, reason) == <<reason>>

\* if triggered: warnings.append(reason)
AppendIf(triggered, reason) == IF triggered THEN <<reason>> ELSE <<>>

\* ---- services/basis.py
\* BasisCalculator.calculate_basis: None when a price is missing (or zero)
CalculateBasis(usdt_price, usdc_price) ==
    IF ~Truthy(usdt_price) \/ ~Truthy(usdc_price) THEN None
    ELSE Some(((usdc_price[1] - usdt_price[1]) * 10000) \div usdt_price[1])

\* get_basis(use_cache=True) at time t: the value returned and the cache after
GetBasis(t, usdt_price, usdc_price) ==
    IF basis_cache # None /\ basis_cache_time # None
       /\ t - basis_cache_time[1] < CACHE_TTL
    THEN [value |-> basis_cache[1], cache |-> basis_cache, time |-> basis_cache_time,
          read |-> "none"]
    ELSE LET basis_bps == CalculateBasis(usdt_price, usdc_price)
         IN IF basis_bps # None
            THEN [value |-> basis_bps[1], cache |-> basis_bps, time |-> Some(t),
                  read |-> "ok"]
            ELSE IF basis_cache # None
                 THEN [value |-> basis_cache[1], cache |-> basis_cache,
                       time |-> basis_cache_time, read |-> "empty"]
                 ELSE [value |-> 0, cache |-> basis_cache, time |-> basis_cache_time,
                       read |-> "empty"]

\* ---- routers/engine.py get_guards
\* lines 231-288: the snapshot built from what was read
EngineEvaluate(book_result, funding_result, liq_count, basis_bps) ==
    LET spread_bps == IF book_result # None THEN book_result[1].spread_bps ELSE 0
        depth_bid_usd == IF book_result # None THEN book_result[1].depth_10bps_bid_usd ELSE 0
        depth_ask_usd == IF book_result # None THEN book_result[1].depth_10bps_ask_usd ELSE 0
        funding_apr == IF funding_result # None THEN funding_result[1].funding_apr ELSE 0
        oi_notional == IF funding_result # None THEN funding_result[1].oi_notional ELSE 0
        w_spread == spread_bps > Tenths(SPREAD_MAX_BPS)
        w_depth == depth_bid_usd < MIN_DEPTH_USD \/ depth_ask_usd < MIN_DEPTH_USD
        w_funding == Abs(funding_apr) > MAX_FUNDING_APR
        w_liq == liq_count > MAX_LIQ_5M
    IN [spread_bps |-> spread_bps,
        depth_bid_usd |-> depth_bid_usd, depth_ask_usd |-> depth_ask_usd,
        funding_apr |-> funding_apr, basis_bps |-> basis_bps,
        oi_notional |-> oi_notional, liq_events_5m |-> liq_count,
        status |-> StatusAfter(w_spread \/ w_depth \/ w_funding, w_liq),
        warnings |->
            AppendIf(w_spread, Reason("spread", spread_bps))
            \o AppendIf(w_depth, Reason("depth", Min(depth_bid_usd, depth_ask_usd)))
            \o AppendIf(w_funding, Reason("funding", funding_apr))
            \o AppendIf(w_liq, Reason("liquidations", liq_count)),
        data_source |-> "live", error |-> FALSE]

\* lines 296-315: the mock snapshot returned from the except clause
EngineFallback ==
    [spread_bps |-> 62, depth_bid_usd |-> 125000, depth_ask_usd |-> 130000,
     funding_apr |-> 112, basis_bps |-> 4, oi_notional |-> 45000000,
     liq_events_5m |-> 0, status |-> "passing", warnings |-> <<>>,
     data_source |-> "fallback", error |-> TRUE]

\* ---- routers/guards.py get_guards
\* lines 145-212: book_data and funding_data are None or the parsed entry,
\* liq_count is the int count_recent returned
GuardsEvaluate(book_data, funding_data, liq_count) ==
    LET spread_bps == IF book_data # None THEN book_data[1].spread_bps ELSE 0
        depth_bid_usd == IF book_data # None THEN book_data[1].depth_10bps_bid_usd ELSE 0
        depth_ask_usd == IF book_data # None THEN book_data[1].depth_10bps_ask_usd ELSE 0
        funding_apr == IF funding_data # None THEN funding_data[1].funding_apr ELSE 0
        oi_notional == IF funding_data # None THEN funding_data[1].oi_notional ELSE 0
        w_spread == book_data # None /\ spread_bps > Tenths(SPREAD_MAX_BPS)
        w_depth == book_data # None
                   /\ (depth_bid_usd < MIN_DEPTH_USD \/ depth_ask_usd < MIN_DEPTH_USD)
        w_funding == funding_data # None /\ Abs(funding_apr) > MAX_FUNDING_APR
        w_liq == liq_count > MAX_LIQ_5M
    IN [spread_bps |-> spread_bps,
        depth_bid_usd |-> depth_bid_usd, depth_ask_usd |-> depth_ask_usd,
        funding_apr |-> funding_apr, basis_bps |-> 0,
        oi_notional |-> oi_notional, liq_events_5m |-> liq_count,
        status |-> StatusAfter(w_spread \/ w_depth \/ w_funding, w_liq),
        warnings |->
            AppendIf(w_spread, Reason("spread", spread_bps))
            \o AppendIf(w_depth, Reason("depth", Min(depth_bid_usd, depth_ask_usd)))
            \o AppendIf(w_funding, Reason("funding", funding_apr))
            \o AppendIf(w_liq, Reason("liquidations", liq_count)),
        data_sources |->
            [book |-> IF book_data # None THEN "live" ELSE "unavailable",
             funding |-> IF funding_data # None THEN "live" ELSE "unavailable",
             liquidations |-> IF liq_count >= 0 THEN "live" ELSE "unavailable"],
        error |-> FALSE]

\* Both handlers answering, with nothing cached, to the same content of the
\* three topics: the latest book and funding entries (None: empty topic) and
\* the number of liquidation entries of the last five minutes
InitCompare == compared = None

CompareGetGuards ==
    \E book \in {None} \cup {Some(b) : b \in BookSamples},
       funding \in {None} \cup {Some(f) : f \in FundingSamples},
       liq_count \in {0} \cup LiqSamples,
       basis_bps \in {0, 4} :
       compared' = Some([book |-> book, funding |-> funding, liq_count |-> liq_count,
                         engine |-> EngineEvaluate(book, funding, liq_count, basis_bps),
                         guards |-> GuardsEvaluate(book, funding, liq_count)])

\* A validity test that still accepts a value aged exactly CACHE_TTL
IsCacheValid_Inclusive(key, t) ==
    /\ key \in DOMAIN cache
    /\ key \in DOMAIN cache_timestamps
    /\ t - cache_timestamps[key] <= CACHE_TTL

\* is_cache_valid(key) at time t
IsCacheValid(key, t) ==
    /\ key \in DOMAIN cache
    /\ key \in DOMAIN cache_timestamps
    /\ t - cache_timestamps[key] < CACHE_TTL

\* Two requests for /guards in flight at once
Handlers == {1, 2}

NoReads == [book |-> "none", funding |-> "none", liquidations |-> "none", basis |-> "none"]

InitGuards ==
    /\ guard_now = 0
    /\ guards_cache = None
    /\ guards_cache_time = None
    /\ basis_cache = None
    /\ basis_cache_time = None
    /\ cache = EmptyDict
    /\ cache_timestamps = EmptyDict
    /\ guard_response = None
    /\ guard_reads = NoReads
    /\ gg_pc = [h \in Handlers |-> "idle"]
    /\ gg_local = [h \in Handlers |-> None]
    /\ gg_response = [h \in Handlers |-> None]
    /\ gg_calls = [h \in Handlers |-> 0]

\* The times a request can arrive at: just inside and just outside the
\* lifetime of a value cached now
Arrivals == {t \in {guard_now + CACHE_TTL - 1, guard_now + CACHE_TTL} : t <= MaxGuardClock}

\* engine.get_guards answered from guards_cache (lines 212-214)
EngineCached(t) ==
    /\ guards_cache_time # None
    /\ t - guards_cache_time[1] < CACHE_TTL
    /\ guard_now' = t
    /\ guard_response' = guards_cache
    /\ guard_reads' = NoReads
    /\ UNCHANGED <<guards_cache, guards_cache_time, basis_cache, basis_cache_time>>

\* engine.get_guards when the connection or a stream read raises (296-315)
EngineFailed(t) ==
    /\ ~(guards_cache_time # None /\ t - guards_cache_time[1] < CACHE_TTL)
    /\ guard_now' = t
    /\ guard_response' = Some(EngineFallback)
    /\ guard_reads' = [book |-> "failed", funding |-> "failed",
                       liquidations |-> "failed", basis |-> "none"]
    /\ UNCHANGED <<guards_cache, guards_cache_time, basis_cache, basis_cache_time>>

\* engine.get_guards reading the streams (216-294)
EngineFresh(t, book_result, funding_result, liq_count, prices) ==
    LET basis == GetBasis(t, prices[1], prices[2])
        result == EngineEvaluate(book_result, funding_result, liq_count, basis.value)
    IN /\ ~(guards_cache_time # None /\ t - guards_cache_time[1] < CACHE_TTL)
       /\ guard_now' = t
       /\ basis_cache' = basis.cache
       /\ basis_cache_time' = basis.time
       /\ guards_cache' = Some(result)
       /\ guards_cache_time' = Some(t)
       /\ guard_response' = Some(result)
       /\ guard_reads' = [book |-> IF book_result # None THEN "ok" ELSE "empty",
                          funding |-> IF funding_result # None THEN "ok" ELSE "empty",
                          liquidations |-> "ok",
                          basis |-> basis.read]

EngineGetGuards ==
    /\ guards_impl = "engine"
    /\ \E t \in Arrivals :
          \/ EngineCached(t)
          \/ EngineFailed(t)
          \/ \E book_result \in {None} \cup {Some(b) : b \in BookSamples},
                funding_result \in {None} \cup {Some(f) : f \in FundingSamples},
                liq_count \in LiqSamples, prices \in PriceSamples :
                EngineFresh(t, book_result, funding_result, liq_count, prices)
    /\ UNCHANGED <<guards_impl, cache, cache_timestamps>>
    /\ UNCHANGED <<gg_pc, gg_local, gg_response, gg_calls>>

\* What a read of RedisStreamsReader meets: the connection or the command
\* raising, an empty stream, or an entry
Raised == [kind |-> "failed"]
NoEntry == [kind |-> "empty"]
Returned(x) == [kind |-> "ok", data |-> x]
ReadOutcomes(samples) == {Raised, NoEntry} \cup {Returned(x) : x \in samples}

\* guards.get_cached_or_fetch(key, reader.get_latest(stream)) at time t;
\* met is what the read meets if it is made.  get_latest returns None for an
\* empty stream and for an exception alike.
FetchLatest(key, t, met) ==
    IF IsCacheValid(key, t) THEN [value |-> cache[key], read |-> "none"]
    ELSE IF met.kind = "ok" THEN [value |-> Some(met.data), read |-> "ok"]
    ELSE [value |-> None, read |-> met.kind]

\* guards.get_cached_or_fetch("liq_count", reader.count_recent(...)) at time
\* t; count_recent returns 0 when it raises.
FetchCount(key, t, met) ==
    IF IsCacheValid(key, t) THEN [value |-> cache[key], read |-> "none"]
    ELSE IF met.kind = "ok" THEN [value |-> met.data, read |-> "ok"]
    ELSE [value |-> 0, read |-> "failed"]

\* guards.get_guards
guards_get_guards(t, book_met, funding_met, liq_met) ==
    LET book == FetchLatest("book", t, book_met)
        funding == FetchLatest("funding", t, funding_met)
        liq == FetchCount("liq_count", t, liq_met)
        Stamp(key, fetched) == IF fetched.read = "none" THEN cache_timestamps[key] ELSE t
    IN /\ guard_now' = t
       /\ cache' = [k \in {"book", "funding", "liq_count"} |->
                       IF k = "book" THEN book.value
                       ELSE IF k = "funding" THEN funding.value ELSE liq.value]
       /\ cache_timestamps' = [k \in {"book", "funding", "liq_count"} |->
                       IF k = "book" THEN Stamp(k, book)
                       ELSE IF k = "funding" THEN Stamp(k, funding) ELSE Stamp(k, liq)]
       /\ guard_response' = Some(GuardsEvaluate(book.value, funding.value, liq.value))
       /\ guard_reads' = [book |-> book.read, funding |-> funding.read,
                          liquidations |-> liq.read, basis |-> "none"]

GuardsGetGuards ==
    /\ guards_impl = "guards"
    /\ \E t \in Arrivals :
          \E book_met \in ReadOutcomes(BookSamples),
             funding_met \in ReadOutcomes(FundingSamples),
             liq_met \in {Raised} \cup {Returned(n) : n \in LiqSamples} :
             guards_get_guards(t, book_met, funding_met, liq_met)
    /\ UNCHANGED <<guards_impl, guards_cache, guards_cache_time, basis_cache,
                   basis_cache_time>>
    /\ UNCHANGED <<gg_pc, gg_local, gg_response, gg_calls>>

(***************************************************************************)
(* engine.get_guards as concurrent request handlers.  The handlers share   *)
(* guards_cache, guards_cache_time and the basis cache and run on one      *)
(* event loop: a handler runs alone from one await to the next.  Its       *)
(* awaits are the Redis connection and reads (lines 218-229) and, inside   *)
(* get_basis, calculate_basis; nothing is awaited between building the     *)
(* result and the two assignments of lines 291-292.                        *)
(***************************************************************************)
\* What the stream reads of a handler can return
RaceBooks ==
    {None} \cup {Some(b) : b \in {x \in BookSamples :
                                    /\ x.depth_10bps_bid_usd = MIN_DEPTH_USD
                                    /\ x.depth_10bps_ask_usd = MIN_DEPTH_USD}}
RaceFundings == {Some(f) : f \in {x \in FundingSamples : x.funding_apr = MAX_FUNDING_APR}}
RaceLiqs == {MAX_LIQ_5M + 1}
RacePrices == {<<Some(100), None>>, <<Some(100), Some(101)>>}

\* A cache test that does not ask whether anything was cached
CacheHit_Unstamped(t) ==
    guards_cache_time = None \/ t - guards_cache_time[1] < CACHE_TTL

\* line 213: guards_cache_time and (now - guards_cache_time) < CACHE_TTL
CacheHit(t) ==
    guards_cache_time # None /\ t - guards_cache_time[1] < CACHE_TTL

\* get_basis, lines 122-125
BasisHit(t) ==
    basis_cache # None /\ basis_cache_time # None /\ t - basis_cache_time[1] < CACHE_TTL

\* lines 231-294: the handler builds its snapshot, stores it with the time
\* and returns it
BuildAndCache(h, local, basis_bps) ==
    LET result == EngineEvaluate(local.book_result, local.funding_result,
                                 local.liq_count, basis_bps)
    IN /\ guards_cache' = Some(result)
       /\ guards_cache_time' = Some(guard_now)
       /\ gg_response' = [gg_response EXCEPT ![h] = Some(result)]
       /\ gg_local' = [gg_local EXCEPT ![h] = None]
       /\ gg_pc' = [gg_pc EXCEPT ![h] = "idle"]

\* lines 209-214: the request arrives and the cache is tested
GetGuardsCheck(h) ==
    /\ gg_pc[h] = "idle"
    /\ gg_calls[h] < MaxGuardCalls
    /\ gg_calls' = [gg_calls EXCEPT ![h] = @ + 1]
    /\ IF CacheHit(guard_now)
       THEN /\ gg_response' = [gg_response EXCEPT ![h] = guards_cache]
            /\ UNCHANGED gg_pc
       ELSE /\ gg_pc' = [gg_pc EXCEPT ![h] = "reading"]
            /\ UNCHANGED gg_response
    /\ UNCHANGED <<guard_now, guards_cache, guards_cache_time, basis_cache,
                   basis_cache_time, gg_local>>
    /\ UNCHANGED <<guards_impl, cache, cache_timestamps, guard_response, guard_reads>>

\* lines 216-229 fail: the except clause returns the mock snapshot
GetGuardsReadFails(h) ==
    /\ gg_pc[h] = "reading"
    /\ gg_response' = [gg_response EXCEPT ![h] = Some(EngineFallback)]
    /\ gg_pc' = [gg_pc EXCEPT ![h] = "idle"]
    /\ UNCHANGED <<guard_now, guards_cache, guards_cache_time, basis_cache,
                   basis_cache_time, gg_local, gg_calls>>
    /\ UNCHANGED <<guards_impl, cache, cache_timestamps, guard_response, guard_reads>>

\* lines 216-254: the streams are read and get_basis tests its cache
GetGuardsRead(h) ==
    /\ gg_pc[h] = "reading"
    /\ \E book_result \in RaceBooks, funding_result \in RaceFundings,
          liq_count \in RaceLiqs :
         LET local == [book_result |-> book_result, funding_result |-> funding_result,
                       liq_count |-> liq_count]
         IN IF BasisHit(guard_now)
            THEN BuildAndCache(h, local, basis_cache[1])
            ELSE /\ gg_local' = [gg_local EXCEPT ![h] = Some(local)]
                 /\ gg_pc' = [gg_pc EXCEPT ![h] = "pricing"]
                 /\ UNCHANGED <<guards_cache, guards_cache_time, gg_response>>
    /\ UNCHANGED <<guard_now, basis_cache, basis_cache_time, gg_calls>>
    /\ UNCHANGED <<guards_impl, cache, cache_timestamps, guard_response, guard_reads>>

\* get_basis from the return of calculate_basis (lines 128-141), then lines
\* 256-294
GetGuardsPriced(h) ==
    /\ gg_pc[h] = "pricing"
    /\ \E prices \in RacePrices :
         LET basis_bps == CalculateBasis(prices[1], prices[2])
         IN IF basis_bps # None
            THEN /\ basis_cache' = basis_bps
                 /\ basis_cache_time' = Some(guard_now)
                 /\ BuildAndCache(h, gg_local[h][1], basis_bps[1])
            ELSE /\ UNCHANGED <<basis_cache, basis_cache_time>>
                 /\ BuildAndCache(h, gg_local[h][1],
                                  IF basis_cache # None THEN basis_cache[1] ELSE 0)
    /\ UNCHANGED <<guard_now, gg_calls>>
    /\ UNCHANGED <<guards_impl, cache, cache_timestamps, guard_response, guard_reads>>

\* Time passes between two steps of the handlers
GuardClockAdvances ==
    /\ \E t \in Arrivals : guard_now' = t
    /\ UNCHANGED <<guards_cache, guards_cache_time, basis_cache, basis_cache_time,
                   gg_pc, gg_local, gg_response, gg_calls>>
    /\ UNCHANGED <<guards_impl, cache, cache_timestamps, guard_response, guard_reads>>

(***************************************************************************)
(* Redis stream append: redis.xadd(stream, fields, maxlen=N)               *)
(*                                                                         *)
(* Every producer calls xadd with maxlen and nothing else.  The client's   *)
(* xadd has approximate=True by default, so the command sent is            *)
(* XADD stream MAXLEN ~ N: the server evicts oldest entries a whole node   *)
(* at a time and never goes below N, so that up to one node's worth of     *)
(* entries above N can remain.  Where the node boundaries fall depends on  *)
(* the server; the number evicted is a choice among what it can do.        *)
(***************************************************************************)
\* How many oldest entries an append that brings the stream to len entries
\* can evict
Evictions(len, maxlen) ==
    IF len <= maxlen THEN {0}
    ELSE Max(0, len - maxlen - MaxNodeEntries + 1)..(len - maxlen)

\* The stream after xadd(stream, entry, maxlen=...) evicted that many entries
Xadd(stream, entry, evicted) ==
    SubSeq(Append(stream, entry), evicted + 1, Len(stream) + 1)

InitTopic ==
    /\ topic = <<>>
    /\ topic_appended = 0

\* publish_snapshot / publish_liquidation: one xadd with maxlen
PublishToTopic ==
    /\ topic_appended < BOOK_MAXLEN + MaxOverflow
    /\ \E evicted \in Evictions(Len(topic) + 1, BOOK_MAXLEN) :
          topic' = Xadd(topic, topic_appended + 1, evicted)
    /\ topic_appended' = topic_appended + 1

(***************************************************************************)
(* run(): the reconnecting loop of BinanceTradesCVD, BinanceBookTop and    *)
(* OKXUSDCPrice, which differ only in the URL and in the handler called    *)
(* for each message.  run() has set running and connected Redis.           *)
(***************************************************************************)
InitRun ==
    /\ ws_pc = "connecting"
    /\ ws_running = TRUE
    /\ reconnect_delay = RECONNECT_DELAY_MIN
    /\ ws_fails = 0
    /\ ws_connected_once = FALSE
    /\ ws_uptime = 0

\* websockets.connect raises; the loop goes on to sleep
WsConnectFails ==
    /\ ws_pc = "connecting"
    /\ ws_fails < MaxFails
    /\ ws_pc' = "sleeping"
    /\ ws_fails' = ws_fails + 1
    /\ UNCHANGED <<ws_running, reconnect_delay, ws_connected_once, ws_uptime>>

\* the connection is made: self.reconnect_delay = RECONNECT_DELAY_MIN
WsConnects ==
    /\ ws_pc = "connecting"
    /\ ws_pc' = "connected"
    /\ reconnect_delay' = RECONNECT_DELAY_MIN
    /\ ws_fails' = 0
    /\ ws_connected_once' = TRUE
    /\ ws_uptime' = 0
    /\ UNCHANGED ws_running

\* a second passes with the connection up
WsStaysUp ==
    /\ ws_pc = "connected"
    /\ ws_uptime < MaxUptime
    /\ ws_uptime' = ws_uptime + 1
    /\ UNCHANGED <<ws_pc, ws_running, reconnect_delay, ws_fails, ws_connected_once>>

\* the connection closes or raises; the loop goes on to sleep
WsDrops ==
    /\ ws_pc = "connected"
    /\ ws_pc' = "sleeping"
    /\ UNCHANGED <<ws_running, reconnect_delay, ws_fails, ws_connected_once, ws_uptime>>

\* The delay doubled without the cap
WsWakes_Uncapped ==
    /\ ws_pc = "sleeping"
    /\ ws_pc' = "connecting"
    /\ reconnect_delay' = reconnect_delay * 2
    /\ UNCHANGED <<ws_running, ws_fails, ws_connected_once, ws_uptime>>

\* await asyncio.sleep(self.reconnect_delay);
\* self.reconnect_delay = min(self.reconnect_delay * 2, RECONNECT_DELAY_MAX)
WsWakes ==
    /\ ws_pc = "sleeping"
    /\ ws_pc' = "connecting"
    /\ reconnect_delay' = Min(reconnect_delay * 2, RECONNECT_DELAY_MAX)
    /\ UNCHANGED <<ws_running, ws_fails, ws_connected_once, ws_uptime>>

\* main(): the interrupt ends run(), and stop() clears running
WsStop ==
    /\ ws_pc # "exited"
    /\ ws_pc' = "exited"
    /\ ws_running' = FALSE
    /\ UNCHANGED <<reconnect_delay, ws_fails, ws_connected_once, ws_uptime>>

(***************************************************************************)
(* LiquidationsWorker: three venue feeds in one event loop                 *)
(*                                                                         *)
(* run() has set running, connected Redis and started run_binance, run_okx *)
(* and run_bybit.  A feed gives up the event loop only at an await: while  *)
(* connecting, while sleeping, between messages, and at each xadd.         *)
(***************************************************************************)
Venues == {"binance", "okx", "bybit"}

\* Raw Binance forceOrder events: o.s, o.S and E (absent: None)
BinanceOrders(now) ==
    [s : {"SOLUSDT", "BTCUSDT"}, S : {"SELL", "BUY"}, E : {None, Some(0)}]
\* Raw OKX liquidation-orders items: instId, side (absent: None) and ts
OkxItems(now) ==
    [instId : {"SOL-USDT-SWAP", "BTC-USDT-SWAP"}, side : {None, Some("buy"), Some("sell")},
     ts : {Some(0)}]
\* Raw Bybit liquidation items: symbol, side (absent: None) and updatedTime
BybitItems(now) ==
    [symbol : {"SOLUSDT", "BTCUSDT"}, side : {None, Some("Buy"), Some("Sell")},
     updatedTime : {Some(0)}]
\* One order or item per venue, for the runs that are about the connections
OneBinanceOrder == {[s |-> "SOLUSDT", S |-> "SELL", E |-> None]}
OneOkxItem == {[instId |-> "SOL-USDT-SWAP", side |-> Some("sell"), ts |-> Some(0)]}
OneBybitItem == {[symbol |-> "SOLUSDT", side |-> Some("Sell"), updatedTime |-> Some(0)]}

\* str.lower() on the side strings that occur
Lower(str) ==
    IF str = "Buy" THEN "buy" ELSE IF str = "Sell" THEN "sell" ELSE str

\* dict.get(key, default) on a field that may be absent
GetOr(field, default) == IF field = None THEN default ELSE field[1]

\* 'SOL' in inst_id and 'USDT' in inst_id, on the instrument ids that occur
IsSolUsdt(inst_id) == inst_id = "SOL-USDT-SWAP"

\* The Liquidation each handler builds; price and quantity are copied through
LiquidationOfBinance(order, now) ==
    [venue |-> "binance", symbol |-> order.s,
     side |-> IF order.S = "SELL" THEN "long" ELSE "short",
     timestamp |-> GetOr(order.E, now)]
LiquidationOfOkx(item, now) ==
    [venue |-> "okx", symbol |-> "SOLUSDT",
     side |-> GetOr(item.side, "unknown"),
     timestamp |-> GetOr(item.ts, now)]
LiquidationOfBybit(item, now) ==
    [venue |-> "bybit", symbol |-> item.symbol,
     side |-> Lower(GetOr(item.side, "unknown")),
     timestamp |-> GetOr(item.updatedTime, now)]

\* publish_liquidation: the entry gets the id the server draws from its clock;
\* a failing xadd is logged and swallowed.  The stream stays far below its
\* maxlen here, so nothing is evicted.
StreamAfterLiquidation(liq, xadd_ok) ==
    IF xadd_ok
    THEN Xadd(liq_stream, [id |-> liq_now, liq |-> liq], 0)
    ELSE liq_stream
AppendedAfterLiquidation(xadd_ok) ==
    IF xadd_ok THEN Append(liq_appended, liq_now) ELSE liq_appended

InitLiq ==
    /\ liq_pc = [v \in Venues |-> "connecting"]
    /\ reconnect_delays = [v \in Venues |-> RECONNECT_DELAY_MIN]
    /\ pending = [v \in Venues |-> <<>>]
    /\ liq_stream = <<>>
    /\ liq_buffer = 0
    /\ liq_parquet = 0
    /\ liq_now = 0
    /\ backoffs = [v \in Venues |-> 0]
    /\ liq_appended = <<>>
    /\ liq_handled = 0

liqReader == <<liq_now>>
liqFeeds == <<liq_pc, reconnect_delays, backoffs>>
liqEvents == <<liq_stream, liq_buffer, liq_parquet, liq_appended, liq_handled>>

\* websockets.connect (or the subscription sent through it) raises
ConnectFails(v) ==
    /\ liq_pc[v] = "connecting"
    /\ liq_pc' = [liq_pc EXCEPT ![v] = "sleeping"]
    /\ UNCHANGED <<reconnect_delays, backoffs, pending, liqEvents, liqReader>>

\* the connection is made: self.reconnect_delays[venue] = RECONNECT_DELAY_MIN
Connects(v) ==
    /\ liq_pc[v] = "connecting"
    /\ liq_pc' = [liq_pc EXCEPT ![v] = "connected"]
    /\ reconnect_delays' = [reconnect_delays EXCEPT ![v] = RECONNECT_DELAY_MIN]
    /\ backoffs' = [backoffs EXCEPT ![v] = 0]
    /\ UNCHANGED <<pending, liqEvents, liqReader>>

\* the connection closes or raises between two messages
Drops(v) ==
    /\ liq_pc[v] = "connected"
    /\ pending[v] = <<>>
    /\ liq_pc' = [liq_pc EXCEPT ![v] = "sleeping"]
    /\ UNCHANGED <<reconnect_delays, backoffs, pending, liqEvents, liqReader>>

\* One delay for all venues, doubled by whichever feed wakes up
Wakes_SharedDelay(v) ==
    /\ liq_pc[v] = "sleeping"
    /\ backoffs[v] < MaxVenueBackoffs
    /\ liq_pc' = [liq_pc EXCEPT ![v] = "connecting"]
    /\ reconnect_delays' =
           [w \in Venues |-> Min(reconnect_delays[v] * 2, RECONNECT_DELAY_MAX)]
    /\ backoffs' = [backoffs EXCEPT ![v] = @ + 1]
    /\ UNCHANGED <<pending, liqEvents, liqReader>>

\* delay = self.reconnect_delays[venue]; await asyncio.sleep(delay);
\* self.reconnect_delays[venue] = min(delay * 2, RECONNECT_DELAY_MAX)
Wakes(v) ==
    /\ liq_pc[v] = "sleeping"
    /\ backoffs[v] < MaxVenueBackoffs
    /\ liq_pc' = [liq_pc EXCEPT ![v] = "connecting"]
    /\ reconnect_delays' =
           [reconnect_delays EXCEPT ![v] = Min(@ * 2, RECONNECT_DELAY_MAX)]
    /\ backoffs' = [backoffs EXCEPT ![v] = @ + 1]
    /\ UNCHANGED <<pending, liqEvents, liqReader>>

\* Events buffered by the handlers so far, and those waiting in a message
Handled == liq_handled
Waiting == Len(pending["okx"]) + Len(pending["bybit"])

\* process_binance_liquidation(data)
process_binance_liquidation(order, xadd_ok) ==
    IF order.s # "SOLUSDT"
    THEN UNCHANGED liqEvents
    ELSE LET liq == LiquidationOfBinance(order, liq_now)
         IN /\ liq_stream' = StreamAfterLiquidation(liq, xadd_ok)
            /\ liq_appended' = AppendedAfterLiquidation(xadd_ok)
            /\ liq_handled' = liq_handled + 1
            /\ IF liq_buffer + 1 >= LIQ_FLUSH_LEN
               THEN \E pq_ok \in BOOLEAN :
                       /\ liq_parquet' = IF pq_ok THEN liq_parquet + liq_buffer + 1
                                         ELSE liq_parquet
                       /\ liq_buffer' = 0
               ELSE /\ liq_buffer' = liq_buffer + 1
                    /\ UNCHANGED liq_parquet

\* run_binance receives a forceOrder message
BinanceMessage(force_orders) ==
    /\ liq_pc["binance"] = "connected"
    /\ Handled + Waiting < MaxLiqs
    /\ \E order \in force_orders, xadd_ok \in BOOLEAN :
          process_binance_liquidation(order, xadd_ok)
    /\ UNCHANGED <<liqFeeds, pending, liqReader>>

\* run_okx / run_bybit receive a message carrying these items
BatchMessage(v, batches) ==
    /\ v \in {"okx", "bybit"}
    /\ liq_pc[v] = "connected"
    /\ pending[v] = <<>>
    /\ \E batch \in batches :
          /\ Handled + Waiting + Len(batch) <= MaxLiqs
          /\ pending' = [pending EXCEPT ![v] = batch]
    /\ UNCHANGED <<liqFeeds, liqEvents, liqReader>>

\* One turn of the loop over data['data'] in process_okx_liquidation and
\* process_bybit_liquidation: the item is skipped, or published and buffered
ProcessItem(v) ==
    /\ pending[v] # <<>>
    /\ LET item == Head(pending[v])
           wanted == IF v = "okx" THEN IsSolUsdt(item.instId)
                     ELSE item.symbol = "SOLUSDT"
           liq == IF v = "okx" THEN LiquidationOfOkx(item, liq_now)
                  ELSE LiquidationOfBybit(item, liq_now)
       IN IF wanted
          THEN \E xadd_ok \in BOOLEAN :
                  /\ liq_stream' = StreamAfterLiquidation(liq, xadd_ok)
                  /\ liq_appended' = AppendedAfterLiquidation(xadd_ok)
                  /\ liq_handled' = liq_handled + 1
                  /\ liq_buffer' = liq_buffer + 1
                  /\ UNCHANGED liq_parquet
          ELSE UNCHANGED liqEvents
    /\ pending' = [pending EXCEPT ![v] = Tail(@)]
    /\ UNCHANGED <<liqFeeds, liqReader>>

\* Messages of one item, or of two alike
Batches(items) == {<<i>> : i \in items} \cup {<<i, i>> : i \in items}

\* Time passes: the clock moves to just inside or just outside the five
\* minutes after it
LiqClock == {0, 1, FIVE_MIN_MS + 1}
Tick ==
    /\ \E t \in LiqClock : t > liq_now /\ liq_now' = t
    /\ UNCHANGED <<liqFeeds, pending, liqEvents>>

\* Entries counted by event time in place of entry id
CountRecent_ByEventTime(stream, now) ==
    Cardinality({i \in 1..Len(stream) : stream[i].liq.timestamp >= now - FIVE_MIN_MS})

\* RedisStreamsReader.count_recent and the xrange of engine.get_guards:
\* len(redis.xrange(stream, min=f"{cutoff_time}-0")), the cutoff five minutes
\* before now
CountRecent(stream, now) ==
    Cardinality({i \in 1..Len(stream) : stream[i].id >= now - FIVE_MIN_MS})

(***************************************************************************)
(* helius_webhook and HeliusWebhookHandler (backend/routers/webhooks.py).   *)
(* Requests are handled concurrently by the event loop: a request gives     *)
(* way to the others at every await of a Redis command.                     *)
(***************************************************************************)
Requests == {1, 2}
DRIFT_PROGRAM_ID == "dRiftyHA39MWEi3m9aunc5MzRF1JYuBsbn6VPcn33UH"
HookSecrets == {"", "whsec"}

\* Transactions as Helius delivers them: a signature and the accounts touched
DriftTx(sig) == [signature |-> sig, accountData |-> <<[account |-> DRIFT_PROGRAM_ID]>>]
OtherTx(sig) == [signature |-> sig, accountData |-> <<[account |-> "11111111"]>>]
\* Request bodies: json_ok is whether json.loads accepts the body
HookBodies ==
    { [json_ok |-> TRUE, events |-> <<DriftTx("sigA")>>],
      [json_ok |-> TRUE, events |-> <<DriftTx("sigA"), DriftTx("sigB")>>],
      [json_ok |-> TRUE, events |-> <<DriftTx(""), DriftTx("sigB")>>],
      [json_ok |-> TRUE, events |-> <<OtherTx("sigC")>>],
      [json_ok |-> FALSE, events |-> <<>>] }

\* hmac.new(key, payload, sha256).hexdigest(): one digest per key and payload
Mac(key, payload) == [key |-> key, payload |-> payload]
\* The X-Helius-Signature header: absent, the digest under the secret, or a
\* digest made without it
HookHeaders(body) == {None, Some(Mac("whsec", body)), Some(Mac("guess", body))}

\* A verification that accepts every signature
verify_signature_Always(payload, signature) == TRUE

\* HeliusWebhookHandler.verify_signature
verify_signature(payload, signature) ==
    IF hook_secret = ""
    THEN TRUE
    ELSE Mac(hook_secret, payload) = signature

\* A signature was supplied and is not the digest of the body under the
\* configured secret
Mismatch(body, header) ==
    /\ hook_secret # ""
    /\ header # None
    /\ header[1] # Mac(hook_secret, body)

\* The submission proves knowledge of the configured secret
ValidlySigned(body, header) ==
    /\ hook_secret # ""
    /\ header # None
    /\ header[1] = Mac(hook_secret, body)

\* HeliusWebhookHandler.filter_drift_events
filter_drift_events(events) ==
    SelectSeq(events, LAMBDA e :
        \E i \in 1..Len(e.accountData) : e.accountData[i].account = DRIFT_PROGRAM_ID)

InitHookState ==
    /\ hook_pc = [h \in Requests |-> "idle"]
    /\ hook_queue = [h \in Requests |-> <<>>]
    /\ hook_signed = [h \in Requests |-> FALSE]
    /\ hook_mismatch = [h \in Requests |-> FALSE]
    /\ hook_response = [h \in Requests |-> 0]
    /\ dedup_set = {}
    /\ dedup_window = 0
    /\ drift_stream = <<>>
    /\ event_buffer = 0
    /\ hook_checked = {}
    /\ hook_submitted = 0
    /\ hook_counts = [h \in Requests |-> [processed |-> 0, appended |-> 0]]
InitHook == InitHookState /\ hook_secret = "whsec"

\* helius_webhook up to the first await of process_events.  The 401 raised
\* for a bad signature is caught by the handler's own `except Exception` and
\* leaves as a 500.
Submit(h) ==
    /\ hook_pc[h] = "idle"
    /\ hook_submitted < MaxSubmissions
    /\ hook_submitted' = hook_submitted + 1
    /\ \E body \in HookBodies : \E header \in HookHeaders(body) :
         LET drift_events == filter_drift_events(body.events) IN
         /\ hook_mismatch' = [hook_mismatch EXCEPT ![h] = Mismatch(body, header)]
         /\ IF header # None /\ ~verify_signature(body, header[1])
            THEN /\ hook_response' = [hook_response EXCEPT ![h] = 500]
                 /\ UNCHANGED <<hook_pc, hook_queue, hook_signed, hook_counts>>
            ELSE IF ~body.json_ok
            THEN /\ hook_response' = [hook_response EXCEPT ![h] = 400]
                 /\ UNCHANGED <<hook_pc, hook_queue, hook_signed, hook_counts>>
            ELSE IF drift_events = <<>>
            THEN /\ hook_response' = [hook_response EXCEPT ![h] = 200]
                 /\ UNCHANGED <<hook_pc, hook_queue, hook_signed, hook_counts>>
            ELSE /\ hook_response' = [hook_response EXCEPT ![h] = 0]
                 /\ hook_counts' = [hook_counts EXCEPT
                                       ![h] = [processed |-> 0, appended |-> 0]]
                 /\ hook_pc' = [hook_pc EXCEPT ![h] = "checking"]
                 /\ hook_queue' = [hook_queue EXCEPT ![h] = drift_events]
                 /\ hook_signed' = [hook_signed EXCEPT ![h] = ValidlySigned(body, header)]
    /\ UNCHANGED <<hook_secret, dedup_set, dedup_window, drift_stream, event_buffer,
                   hook_checked>>

\* process_events moves on to its next event, or returns and the handler
\* answers 200
NextEvent(h) ==
    /\ hook_queue' = [hook_queue EXCEPT ![h] = Tail(@)]
    /\ IF Len(hook_queue[h]) = 1
       THEN /\ hook_pc' = [hook_pc EXCEPT ![h] = "idle"]
            /\ hook_response' = [hook_response EXCEPT ![h] = 200]
       ELSE /\ hook_pc' = [hook_pc EXCEPT ![h] = "checking"]
            /\ UNCHANGED hook_response

\* process_events from the top of the loop to the reply of sismember
CheckDuplicate(h) ==
    /\ hook_pc[h] = "checking"
    /\ LET event_id == Head(hook_queue[h]).signature IN
       IF event_id = ""
       THEN NextEvent(h) /\ UNCHANGED hook_checked
       ELSE /\ hook_checked' = hook_checked \cup {hook_signed[h]}
            /\ \E redis_ok \in BOOLEAN :
                 IF ~redis_ok
                 THEN \* except: return False
                      /\ hook_pc' = [hook_pc EXCEPT ![h] = "publishing"]
                      /\ UNCHANGED <<hook_queue, hook_response>>
                 ELSE IF event_id \in dedup_set
                 THEN NextEvent(h)
                 ELSE /\ hook_pc' = [hook_pc EXCEPT ![h] = "adding"]
                      /\ UNCHANGED <<hook_queue, hook_response>>
    /\ UNCHANGED <<hook_secret, hook_signed, hook_mismatch, dedup_set, dedup_window, drift_stream,
                   event_buffer, hook_submitted, hook_counts>>

\* is_duplicate from the reply of sismember to its return: sadd and expire
AddToDedup(h) ==
    /\ hook_pc[h] = "adding"
    /\ hook_pc' = [hook_pc EXCEPT ![h] = "publishing"]
    /\ \E redis_ok \in BOOLEAN :
         dedup_set' = IF redis_ok
                      THEN dedup_set \cup {Head(hook_queue[h]).signature}
                      ELSE dedup_set
    /\ UNCHANGED <<hook_secret, hook_queue, hook_signed, hook_mismatch, hook_response, dedup_window,
                   drift_stream, event_buffer, hook_checked, hook_submitted, hook_counts>>

\* publish_event and the rest of the loop body: xadd, the buffer, the flush
PublishEvent(h) ==
    /\ hook_pc[h] = "publishing"
    /\ \E xadd_ok \in BOOLEAN :
         /\ drift_stream' =
              IF xadd_ok
              THEN Xadd(drift_stream, [signature |-> Head(hook_queue[h]).signature,
                                       signed |-> hook_signed[h],
                                       window |-> dedup_window], 0)
              ELSE drift_stream
         /\ hook_counts' = [hook_counts EXCEPT
                               ![h] = [processed |-> @.processed + 1,
                                       appended |-> @.appended + IF xadd_ok THEN 1 ELSE 0]]
    /\ event_buffer' = IF event_buffer + 1 >= HOOK_FLUSH_LEN THEN 0 ELSE event_buffer + 1
    /\ NextEvent(h)
    /\ UNCHANGED <<hook_secret, hook_signed, hook_mismatch, dedup_set, dedup_window, hook_checked,
                   hook_submitted>>

\* redis.expire(REDIS_DEDUP_SET, 86400) comes due: the whole set is dropped
DedupExpires ==
    /\ dedup_set # {}
    /\ dedup_window < MaxExpiries
    /\ dedup_set' = {}
    /\ dedup_window' = dedup_window + 1
    /\ UNCHANGED <<hook_secret, hook_pc, hook_queue, hook_signed, hook_mismatch, hook_response,
                   drift_stream, event_buffer, hook_checked, hook_submitted, hook_counts>>

(***************************************************************************)
(* BybitOIFunding (workers/market_data/bybit_oi_funding.py).                *)
(* Rates are in units of 1e-6, prices and sizes are whole numbers.          *)
(***************************************************************************)
\* What one GET can come to: a timeout, an HTTP status, a retCode and the rows
\* of result.list
ApiResponses(row) ==
    { [timeout |-> TRUE,  status |-> 0,   retCode |-> 0,     list |-> <<>>],
      [timeout |-> FALSE, status |-> 500, retCode |-> 0,     list |-> <<>>],
      [timeout |-> FALSE, status |-> 200, retCode |-> 10001, list |-> <<>>],
      [timeout |-> FALSE, status |-> 200, retCode |-> 0,     list |-> <<>>],
      [timeout |-> FALSE, status |-> 200, retCode |-> 0,     list |-> <<row>>] }
OiResponses == ApiResponses([openInterest |-> 100, timestamp |-> 1])
FundingResponses == ApiResponses([fundingRate |-> 100, fundingRateTimestamp |-> 1])
TickerResponses == ApiResponses([lastPrice |-> 150, nextFundingTime |-> 2])

\* The checks every fetch makes before it reads result.list[0]
HasRows(resp) ==
    /\ ~resp.timeout
    /\ resp.status = 200
    /\ resp.retCode = 0
    /\ resp.list # <<>>

\* BybitOIFunding.fetch_open_interest
fetch_open_interest(resp) ==
    IF HasRows(resp)
    THEN Some([oi_value |-> resp.list[1].openInterest,
               timestamp |-> resp.list[1].timestamp])
    ELSE None

\* BybitOIFunding.fetch_funding_rate
fetch_funding_rate(resp) ==
    IF HasRows(resp)
    THEN Some([funding_rate_8h |-> resp.list[1].fundingRate,
               funding_apr |-> resp.list[1].fundingRate * 3 * 365 * 100,
               funding_rate_timestamp |-> resp.list[1].fundingRateTimestamp])
    ELSE None

\* A ticker fetch that answers an empty list with zeros
fetch_tickers_EmptyAsZero(resp) ==
    IF ~resp.timeout /\ resp.status = 200 /\ resp.retCode = 0
    THEN IF resp.list # <<>>
         THEN Some([price |-> resp.list[1].lastPrice,
                    next_funding_time |-> resp.list[1].nextFundingTime])
         ELSE Some([price |-> 0, next_funding_time |-> 0])
    ELSE None

\* BybitOIFunding.fetch_tickers
fetch_tickers(resp) ==
    IF HasRows(resp)
    THEN Some([price |-> resp.list[1].lastPrice,
               next_funding_time |-> resp.list[1].nextFundingTime])
    ELSE None

InitPoll ==
    /\ funding_stream = <<>>
    /\ snapshots_buffer = <<>>
    /\ funding_parquet = 0
    /\ poll_log = None
    /\ polls = 0
    /\ poll_pc = "poll"
    /\ poll_running = TRUE
    /\ poll_outcome = "none"

\* BybitOIFunding.poll_once; the cycles are POLL_INTERVAL apart
poll_once(ois, fundings, tickers) ==
    /\ polls < MaxPolls
    /\ polls' = polls + 1
    /\ \E oi_resp \in ois, funding_resp \in fundings,
          ticker_resp \in tickers, xadd_ok \in BOOLEAN :
         LET oi_data == fetch_open_interest(oi_resp)
             funding_data == fetch_funding_rate(funding_resp)
             ticker_data == fetch_tickers(ticker_resp)
         IN
         /\ poll_log' = Some([oi |-> oi_resp, funding |-> funding_resp,
                              ticker |-> ticker_resp])
         /\ IF oi_data = None \/ funding_data = None \/ ticker_data = None
            THEN UNCHANGED <<funding_stream, snapshots_buffer, funding_parquet>>
            ELSE LET snapshot ==
                        [symbol |-> "SOLUSDT",
                         timestamp |-> polls' * POLL_INTERVAL_MS,
                         oi_notional |-> oi_data[1].oi_value * ticker_data[1].price,
                         oi_value |-> oi_data[1].oi_value,
                         funding_rate_8h |-> funding_data[1].funding_rate_8h,
                         funding_apr |-> funding_data[1].funding_apr,
                         next_funding_time |-> ticker_data[1].next_funding_time]
                     buffered == Append(snapshots_buffer, snapshot)
                 IN
                 /\ funding_stream' = IF xadd_ok
                                      THEN Xadd(funding_stream, snapshot, 0)
                                      ELSE funding_stream
                 /\ IF Len(buffered) >= SNAPSHOTS_FLUSH_LEN
                    THEN /\ funding_parquet' = funding_parquet + Len(buffered)
                         /\ snapshots_buffer' = <<>>
                    ELSE /\ snapshots_buffer' = buffered
                         /\ UNCHANGED funding_parquet

PollOnce ==
    /\ poll_once(OiResponses, FundingResponses, TickerResponses)
    /\ UNCHANGED <<poll_pc, poll_running, poll_outcome>>

\* The responses the loop is run with: a timeout or a row
RowOrTimeout(responses) == {r \in responses : r.timeout \/ r.list # <<>>}

\* Where run() goes when poll_once raised: a run() that lets the exception
\* out of the loop, and the one of the source, whose two except clauses
\* (poll_once line 311, run line 330) both lead to asyncio.sleep
AfterRaise_LeavesLoop == "crashed"
AfterRaise == "sleep"

\* run(): `await self.poll_once()` returns, having published or skipped
RunPollReturns ==
    /\ poll_pc = "poll"
    /\ poll_once(RowOrTimeout(OiResponses), RowOrTimeout(FundingResponses),
                 RowOrTimeout(TickerResponses))
    /\ poll_outcome' = IF /\ HasRows(poll_log'[1].oi)
                          /\ HasRows(poll_log'[1].funding)
                          /\ HasRows(poll_log'[1].ticker)
                       THEN "published" ELSE "skipped"
    /\ poll_pc' = "sleep"
    /\ UNCHANGED poll_running

\* run(): an exception is raised inside poll_once before it published
RunPollRaises ==
    /\ poll_pc = "poll"
    /\ polls < MaxPolls
    /\ polls' = polls + 1
    /\ poll_outcome' = "raised"
    /\ poll_pc' = AfterRaise
    /\ UNCHANGED <<funding_stream, snapshots_buffer, funding_parquet, poll_log,
                   poll_running>>

\* run(): asyncio.sleep(POLL_INTERVAL) returns and `while self.running` is
\* evaluated; when it holds poll_once is called at once
RunSleepReturns ==
    /\ poll_pc = "sleep"
    /\ poll_pc' = IF poll_running THEN "poll" ELSE "stopped"
    /\ UNCHANGED <<funding_stream, snapshots_buffer, funding_parquet, poll_log,
                   polls, poll_running, poll_outcome>>

\* BybitOIFunding.stop: running = False, the buffered snapshots are saved
\* (the buffer is not cleared)
PollStop ==
    /\ poll_running
    /\ poll_running' = FALSE
    /\ funding_parquet' = funding_parquet + Len(snapshots_buffer)
    /\ UNCHANGED <<funding_stream, snapshots_buffer, poll_log, polls, poll_pc,
                   poll_outcome>>

(***************************************************************************)
(* DriftLiqMapScanner (workers/onchain/drift_liq_map.py).                   *)
(* Sizes, prices and collateral are whole numbers; every quotient is kept   *)
(* as a rational [num, den] with den # 0.                                   *)
(***************************************************************************)
SOL_PERP_MARKET_INDEX == 0
Rat(n, d) == [num |-> n, den |-> d]
RatPositive(r) == r.num * r.den > 0
\* maintenance_margin_ratio: float = 0.03
DEFAULT_MMR == Rat(3, 100)

\* DriftLiqMapScanner.decode_position_data: the same position for any account
decode_position_data(account_data) ==
    Some([market_index |-> SOL_PERP_MARKET_INDEX,
          position_size |-> 10,
          avg_entry_price |-> 180,
          collateral_usd |-> 5000])

\* Positions of either sign, among them the one decode_position_data returns
PositionSamples ==
    [market_index : {SOL_PERP_MARKET_INDEX},
     position_size : {-10, 0, 10},
     avg_entry_price : {180},
     collateral_usd : {200, 1000, 1800, 5000}]
OraclePrices == {150, 190}
MmrSamples == {DEFAULT_MMR, Rat(1, 1)}

\* DriftLiqMapScanner.calculate_liquidation_price
calculate_liquidation_price(position_size, avg_entry_price, collateral_usd, oracle_price, maintenance_margin_ratio) ==
    IF position_size = 0
    THEN [liq_price |-> Rat(0, 1), leverage |-> Rat(0, 1), health |-> Rat(1, 1)]
    ELSE LET mmr == maintenance_margin_ratio
             q == position_size
             abs_q == Abs(q)
             position_notional == abs_q * oracle_price
             numerator == collateral_usd - q * avg_entry_price
             \* denominator = mmr * abs_q - q, times mmr.den
             denominator == mmr.num * abs_q - mmr.den * q
             unrealized_pnl == position_size * (oracle_price - avg_entry_price)
             total_collateral == collateral_usd + unrealized_pnl
             \* required_collateral = mmr * abs_q * oracle_price, times mmr.den
             required_collateral == mmr.num * abs_q * oracle_price
         IN [liq_price |-> IF denominator = 0
                           THEN Rat(0, 1)
                           ELSE Rat(numerator * mmr.den, denominator),
             leverage |-> IF collateral_usd > 0
                          THEN Rat(position_notional, collateral_usd)
                          ELSE Rat(0, 1),
             health |-> IF required_collateral > 0
                        THEN Rat(total_collateral * mmr.den, required_collateral)
                        ELSE Rat(1, 1)]

\* ((liq_price - oracle_price) / oracle_price) * 10000: the quotient and the
\* factor are kept apart, their product being beyond the integers of the model
DistanceBps(liq_price, oracle_price) ==
    [num |-> liq_price.num - oracle_price * liq_price.den,
     den |-> oracle_price * liq_price.den,
     times |-> 10000]

\* process_account with `liq_price < 0` in place of `liq_price <= 0`
process_account_ZeroKept(account_pubkey, position, oracle_price, now) ==
    IF position = None \/ position[1].position_size = 0
    THEN None
    ELSE LET r == calculate_liquidation_price(position[1].position_size,
                      position[1].avg_entry_price, position[1].collateral_usd,
                      oracle_price, DEFAULT_MMR)
         IN IF r.liq_price.num * r.liq_price.den < 0 \/ oracle_price = 0
            THEN None
            ELSE Some([account |-> account_pubkey,
                       market_index |-> position[1].market_index,
                       position_size |-> position[1].position_size,
                       avg_entry_price |-> position[1].avg_entry_price,
                       est_liq_px |-> r.liq_price,
                       collateral_usd |-> position[1].collateral_usd,
                       leverage |-> r.leverage,
                       health |-> r.health,
                       distance_bps |-> DistanceBps(r.liq_price, oracle_price),
                       updated_at |-> now])

\* DriftLiqMapScanner.process_account, from the decoded position on.  A zero
\* oracle price makes distance_bps raise, and the except returns None.
process_account(account_pubkey, position, oracle_price, now) ==
    IF position = None \/ position[1].position_size = 0
    THEN None
    ELSE LET r == calculate_liquidation_price(position[1].position_size,
                      position[1].avg_entry_price, position[1].collateral_usd,
                      oracle_price, DEFAULT_MMR)
         IN IF ~RatPositive(r.liq_price) \/ oracle_price = 0
            THEN None
            ELSE Some([account |-> account_pubkey,
                       market_index |-> position[1].market_index,
                       position_size |-> position[1].position_size,
                       avg_entry_price |-> position[1].avg_entry_price,
                       est_liq_px |-> r.liq_price,
                       collateral_usd |-> position[1].collateral_usd,
                       leverage |-> r.leverage,
                       health |-> r.health,
                       distance_bps |-> DistanceBps(r.liq_price, oracle_price),
                       updated_at |-> now])

InitScan ==
    /\ liq_map_stream = <<>>
    /\ scanned = 0
    /\ est_input = None
    /\ est_calc = None
    /\ est_output = None

\* scan_once, the body of its loop for one account: decode, process_account
\* and publish_estimate
ProcessAccount ==
    /\ scanned < MaxAccounts
    /\ scanned' = scanned + 1
    /\ \E oracle_price \in OraclePrices, xadd_ok \in BOOLEAN :
         LET position == decode_position_data(scanned')
             estimate == process_account(scanned', position, oracle_price, scanned')
         IN /\ est_input' = Some([position |-> position[1], oracle_price |-> oracle_price,
                                  mmr |-> DEFAULT_MMR])
            /\ est_calc' = Some(calculate_liquidation_price(position[1].position_size,
                                    position[1].avg_entry_price,
                                    position[1].collateral_usd, oracle_price, DEFAULT_MMR))
            /\ est_output' = estimate
            /\ liq_map_stream' = IF estimate # None /\ xadd_ok
                                 THEN Xadd(liq_map_stream, estimate[1], 0)
                                 ELSE liq_map_stream

\* The estimator applied to a position of the sample set: what process_account
\* and publish_estimate do with it, and what calculate_liquidation_price
\* returns for it under a given maintenance margin ratio
Estimate ==
    /\ scanned < MaxAccounts
    /\ scanned' = scanned + 1
    /\ \E position \in PositionSamples, oracle_price \in OraclePrices,
          mmr \in MmrSamples :
         LET estimate == process_account(scanned', Some(position), oracle_price, scanned')
         IN /\ est_input' = Some([position |-> position, oracle_price |-> oracle_price,
                                  mmr |-> mmr])
            /\ est_calc' = Some(calculate_liquidation_price(position.position_size,
                                    position.avg_entry_price, position.collateral_usd,
                                    oracle_price, mmr))
            /\ est_output' = estimate
            /\ liq_map_stream' = IF estimate # None
                                 THEN Xadd(liq_map_stream, estimate[1], 0)
                                 ELSE liq_map_stream

(***************************************************************************)
(* get_liq_map (backend/routers/market.py).  Distances are whole numbers    *)
(* of basis points.                                                         *)
(***************************************************************************)
DistanceSamples == {-20, -5, 10}
\* Distances of the estimates a stream or a file holds, oldest first
DistanceLists == SeqsUpTo(DistanceSamples, MaxEstimates)

\* A sort key that keeps the sign of the distance
ByAbsDistance_Signed(distance) == distance

\* key=lambda x: abs(x['distance_bps'])
ByAbsDistance(distance) == Abs(distance)

\* list.sort / sorted / sort_values by key, ascending; entries of equal key
\* keep their order.  keyed is a sequence of [key, item].
RECURSIVE InsertByKey(_, _)
InsertByKey(sorted, e) ==
    IF sorted = <<>> THEN <<e>>
    ELSE IF sorted[Len(sorted)].key <= e.key THEN Append(sorted, e)
    ELSE Append(InsertByKey(SubSeq(sorted, 1, Len(sorted) - 1), e), sorted[Len(sorted)])
RECURSIVE SortByKey(_)
SortByKey(keyed) ==
    IF keyed = <<>> THEN <<>>
    ELSE InsertByKey(SortByKey(SubSeq(keyed, 1, Len(keyed) - 1)), keyed[Len(keyed)])
Items(keyed) == [i \in 1..Len(keyed) |-> keyed[i].item]

\* redis.xrevrange(stream_key, count=limit): the newest entries, newest first
XRevRange(stream, count) ==
    [i \in 1..Min(count, Len(stream)) |-> stream[Len(stream) + 1 - i]]

\* lines 107-127: the estimates parsed from the stream, sorted and cut
FromStream(result, limit, v) ==
    LET estimates == [i \in 1..Len(result) |->
                         [key |-> ByAbsDistance(result[i]),
                          item |-> [distance_bps |-> result[i], version |-> v]]]
    IN SubSeq(Items(SortByKey(estimates)), 1, Min(limit, Len(result)))

\* lines 133-137: the JSON file of the TypeScript scanner, sorted and cut
FromJson(data, limit) ==
    LET keyed == [i \in 1..Len(data) |->
                     [key |-> ByAbsDistance(data[i]), item |-> [distanceBps |-> data[i]]]]
    IN SubSeq(Items(SortByKey(keyed)), 1, Min(limit, Len(data)))

\* lines 140-150: the Parquet file, sorted and cut
FromParquet(rows, limit, v) ==
    LET keyed == [i \in 1..Len(rows) |->
                     [key |-> ByAbsDistance(rows[i]),
                      item |-> [distance_bps |-> rows[i], version |-> v]]]
    IN SubSeq(Items(SortByKey(keyed)), 1, Min(limit, Len(rows)))

\* get_liq_map(limit, v).  redis_ok is whether connecting and reading succeed;
\* xrevrange itself raises for a count below 1; parquet and json are None when
\* the file does not exist.
get_liq_map(limit, v, redis_ok, stream, parquet_rows, json_data) ==
    IF ~redis_ok \/ limit < 1 THEN <<>>
    ELSE IF XRevRange(stream, limit) # <<>> THEN FromStream(XRevRange(stream, limit), limit, v)
    ELSE IF parquet_rows # None
    THEN IF json_data # None
         THEN FromJson(json_data[1], limit)
         ELSE FromParquet(parquet_rows[1], limit, v)
    ELSE <<>>

InitLiqMap ==
    /\ lm_query = None
    /\ lm_response = <<>>

\* The handler keeps nothing between requests: one request is followed, against
\* a stream that holds estimates
GetLiqMapFromStream ==
    /\ lm_query = None
    /\ \E limit \in 0..MaxLimit, v \in {1, 2}, redis_ok \in BOOLEAN :
         \E stream \in DistanceLists \ {<<>>} :
            /\ lm_query' = Some([limit |-> limit, v |-> v, redis_ok |-> redis_ok,
                                 stream |-> stream, parquet |-> None, json |-> None])
            /\ lm_response' = get_liq_map(limit, v, redis_ok, stream, None, None)

\* One request, against an empty stream and whatever files exist
GetLiqMapFromFiles ==
    /\ lm_query = None
    /\ \E limit \in 0..MaxLimit, v \in {1, 2} :
         \E parquet_rows \in {None} \cup {Some(r) : r \in DistanceLists} :
         \E json_data \in {None} \cup {Some(d) : d \in DistanceLists} :
            /\ lm_query' = Some([limit |-> limit, v |-> v, redis_ok |-> TRUE,
                                 stream |-> <<>>, parquet |-> parquet_rows, json |-> json_data])
            /\ lm_response' = get_liq_map(limit, v, TRUE, <<>>, parquet_rows, json_data)

(***************************************************************************)
(* place_order, cancel_order and kill_switch (backend/routers/engine.py).   *)
(* The handlers run on one event loop: a handler runs alone between two     *)
(* awaits and gives way at an await.  place_order awaits Redis and then     *)
(* the broadcast; cancel_order and kill_switch await the broadcast, which   *)
(* sends to every websocket client.  Order ids stand for the uuid4 values.  *)
(***************************************************************************)
ActiveStatuses == {"submitted", "open"}
Active(table) == {id \in DOMAIN table : table[id] \in ActiveStatuses}

\* A membership test that always succeeds
Known_Always(table, order_id) == TRUE

\* req.orderId in orders
Known(table, order_id) == order_id \in DOMAIN table

\* kill_switch, lines 169-173: every submitted or open order is cancelled
CancelAll(table) ==
    [id \in DOMAIN table |-> IF table[id] \in ActiveStatuses THEN "cancelled" ELSE table[id]]

InitEngine ==
    /\ orders = EmptyDict
    /\ activity_log = <<>>
    /\ intent_stream = <<>>
    /\ place_pc = None
    /\ kill_pc = None
    /\ eng_last = None
    /\ active_clients = 0
    /\ killed = {}

\* websocket_endpoint, lines 322-326: an accepted client joins active_clients
WebsocketConnect ==
    /\ active_clients < MaxClients
    /\ active_clients' = active_clients + 1
    /\ UNCHANGED <<orders, activity_log, intent_stream, place_pc, kill_pc, eng_last, killed>>

\* websocket_endpoint, lines 328-333: a client that disconnects is removed
WebsocketDisconnect ==
    /\ active_clients > 0
    /\ active_clients' = active_clients - 1
    /\ UNCHANGED <<orders, activity_log, intent_stream, place_pc, kill_pc, eng_last, killed>>

\* broadcast_event, lines 57-62: the handler gives way only in a send to a
\* client; with no client the loop body never runs
BroadcastSuspends == active_clients > 0

\* place_order up to its first await: the order is recorded and logged
PlaceOrderRecord ==
    /\ place_pc = None
    /\ Cardinality(DOMAIN orders) < MaxOrders
    /\ Len(activity_log) < MaxActivity
    /\ LET order_id == Cardinality(DOMAIN orders) + 1 IN
       /\ orders' = DictSet(orders, order_id, "submitted")
       /\ place_pc' = Some([order_id |-> order_id, at |-> "publish"])
    /\ activity_log' = Append(activity_log, "order_submitted")
    /\ UNCHANGED <<intent_stream, kill_pc, eng_last, active_clients, killed>>

\* place_order, lines 96-124: the intent is published, or the failure logged
PlaceOrderPublish ==
    /\ place_pc # None
    /\ place_pc[1].at = "publish"
    /\ \E xadd_ok \in BOOLEAN :
         intent_stream' = IF xadd_ok
                          THEN Xadd(intent_stream, place_pc[1].order_id, 0)
                          ELSE intent_stream
    /\ IF BroadcastSuspends
       THEN /\ place_pc' = Some([place_pc[1] EXCEPT !.at = "broadcast"])
            /\ UNCHANGED eng_last
       ELSE /\ place_pc' = None
            /\ eng_last' = Some([op |-> "place", code |-> 200,
                                 order_id |-> place_pc[1].order_id,
                                 cancelled |-> 0, before |-> orders])
    /\ UNCHANGED <<orders, activity_log, kill_pc, active_clients, killed>>

\* place_order, lines 126-137: the broadcast is over and the response leaves
PlaceOrderReturn ==
    /\ place_pc # None
    /\ place_pc[1].at = "broadcast"
    /\ eng_last' = Some([op |-> "place", code |-> 200, order_id |-> place_pc[1].order_id,
                         cancelled |-> 0, before |-> orders])
    /\ place_pc' = None
    /\ UNCHANGED <<orders, activity_log, intent_stream, kill_pc, active_clients, killed>>

\* cancel_order; nothing it awaits changes what it answers
CancelOrder ==
    /\ \E order_id \in 1..MaxOrders :
         IF ~Known(orders, order_id)
         THEN /\ eng_last' = Some([op |-> "cancel", code |-> 404, order_id |-> order_id,
                                   cancelled |-> 0, before |-> orders])
              /\ UNCHANGED <<orders, activity_log>>
         ELSE /\ Len(activity_log) < MaxActivity
              /\ orders' = [id \in DOMAIN orders |->
                               IF id = order_id THEN "cancelled" ELSE orders[id]]
              /\ activity_log' = Append(activity_log, "order_cancelled")
              /\ eng_last' = Some([op |-> "cancel", code |-> 200, order_id |-> order_id,
                                   cancelled |-> 0, before |-> orders])
    /\ UNCHANGED <<intent_stream, place_pc, kill_pc, active_clients, killed>>

\* kill_switch up to its await: the loop over the table and the log entry
KillSwitchCancel ==
    /\ kill_pc = None
    /\ Len(activity_log) < MaxActivity
    /\ orders' = CancelAll(orders)
    /\ killed' = killed \cup Active(orders)
    /\ activity_log' = Append(activity_log, "kill_switch")
    /\ IF BroadcastSuspends
       THEN /\ kill_pc' = Some([cancelled |-> Cardinality(Active(orders)), before |-> orders])
            /\ UNCHANGED eng_last
       ELSE /\ kill_pc' = None
            /\ eng_last' = Some([op |-> "kill", code |-> 200, order_id |-> 0,
                                 cancelled |-> Cardinality(Active(orders)),
                                 before |-> orders])
    /\ UNCHANGED <<intent_stream, place_pc, active_clients>>

\* kill_switch, lines 183-193: the broadcast is over and the response leaves
KillSwitchReturn ==
    /\ kill_pc # None
    /\ eng_last' = Some([op |-> "kill", code |-> 200, order_id |-> 0,
                         cancelled |-> kill_pc[1].cancelled, before |-> kill_pc[1].before])
    /\ kill_pc' = None
    /\ UNCHANGED <<orders, activity_log, intent_stream, place_pc, active_clients, killed>>

\* server.py mounts routers/engine.py; routers/guards.py is the router written
\* to take its place
InitOthers ==
    InitHook /\ InitPoll /\ InitScan /\ InitLiqMap /\ InitEngine /\ InitCompare
    /\ InitBar
InitRest == InitTopic /\ InitLiq /\ InitRun /\ InitOthers
\* All three feeds have connected
InitLiqConnected ==
    /\ liq_pc = [v \in Venues |-> "connected"]
    /\ reconnect_delays = [v \in Venues |-> RECONNECT_DELAY_MIN]
    /\ pending = [v \in Venues |-> <<>>]
    /\ liq_stream = <<>>
    /\ liq_buffer = 0
    /\ liq_parquet = 0
    /\ liq_now = 0
    /\ backoffs = [v \in Venues |-> 0]
    /\ liq_appended = <<>>
    /\ liq_handled = 0
\* All three feeds connected and the buffer one event short of a flush (the
\* xadd of each of these events failed)
InitLiqNearFlush ==
    /\ liq_pc = [v \in Venues |-> "connected"]
    /\ reconnect_delays = [v \in Venues |-> RECONNECT_DELAY_MIN]
    /\ pending = [v \in Venues |-> <<>>]
    /\ liq_stream = <<>>
    /\ liq_buffer = LIQ_FLUSH_LEN - 1
    /\ liq_parquet = 0
    /\ liq_now = 0
    /\ backoffs = [v \in Venues |-> 0]
    /\ liq_appended = <<>>
    /\ liq_handled = 0
InitNearFlush ==
    /\ InitBook /\ InitCvd /\ InitGuards /\ guards_impl = "engine"
    /\ InitTopic /\ InitLiqNearFlush /\ InitRun /\ InitOthers
InitConnected ==
    /\ InitBook /\ InitCvd /\ InitGuards /\ guards_impl = "engine"
    /\ InitTopic /\ InitLiqConnected /\ InitRun /\ InitOthers
Init == InitBook /\ InitCvd /\ InitGuards /\ guards_impl = "engine" /\ InitRest
InitEitherRouter ==
    /\ InitBook /\ InitCvd /\ InitGuards /\ guards_impl \in {"engine", "guards"}
    /\ InitRest

NextGuards ==
    \/ EngineGetGuards /\ UNCHANGED except_guardVars
    \/ GuardsGetGuards /\ UNCHANGED except_guardVars
SpecGuards == InitEitherRouter /\ [][NextGuards]_vars

NextGuardsRace ==
    \/ \E h \in Handlers : GetGuardsCheck(h) /\ UNCHANGED except_guardVars
    \/ \E h \in Handlers : GetGuardsReadFails(h) /\ UNCHANGED except_guardVars
    \/ \E h \in Handlers : GetGuardsRead(h) /\ UNCHANGED except_guardVars
    \/ \E h \in Handlers : GetGuardsPriced(h) /\ UNCHANGED except_guardVars
    \/ GuardClockAdvances /\ UNCHANGED except_guardVars
SpecGuardsRace == Init /\ [][NextGuardsRace]_vars


NextOrderBook == Update /\ UNCHANGED except_bookVars
SpecOrderBook == Init /\ [][NextOrderBook]_vars

NextBook == ProcessUpdate /\ UNCHANGED except_bookVars
SpecBook == Init /\ [][NextBook]_vars

\* The book worker fed with the sample diffs
NextThrottle == ProcessSampleUpdate /\ UNCHANGED except_bookVars
SpecThrottle == Init /\ [][NextThrottle]_vars

\* The book worker fed with well-formed and malformed messages
NextBookParse ==
    \/ ProcessSampleUpdate /\ UNCHANGED except_bookVars
    \/ ProcessMalformed /\ UNCHANGED except_bookVars
SpecBookParse == Init /\ [][NextBookParse]_vars

\* The three publishing workers.  Each is a process of its own and they write
\* to different streams, so each is followed alone: a worker moves only
\* while the other two are where they started.
NextPublishers ==
    \/ InitCvd /\ InitLiq /\ ProcessSampleUpdate /\ UNCHANGED except_bookVars
    \/ InitBook /\ InitLiq /\ ConnectRedis /\ UNCHANGED except_cvdVars
    \/ InitBook /\ InitLiq /\ ProcessTrade /\ UNCHANGED except_cvdVars
    \/ InitBook /\ InitCvd /\ (\E v \in Venues : Connects(v)) /\ UNCHANGED except_liqVars
    \/ InitBook /\ InitCvd /\ BinanceMessage(OneBinanceOrder) /\ UNCHANGED except_liqVars
    \/ InitBook /\ InitCvd /\ BatchMessage("okx", Batches(OneOkxItem))
          /\ UNCHANGED except_liqVars
    \/ InitBook /\ InitCvd /\ BatchMessage("bybit", Batches(OneBybitItem))
          /\ UNCHANGED except_liqVars
    \/ InitBook /\ InitCvd /\ (\E v \in {"okx", "bybit"} : ProcessItem(v))
          /\ UNCHANGED except_liqVars
SpecPublishers == Init /\ [][NextPublishers]_vars

NextCvd ==
    \/ ConnectRedis /\ UNCHANGED except_cvdVars
    \/ ProcessTrade /\ UNCHANGED except_cvdVars
    \/ Stop /\ UNCHANGED except_cvdVars
SpecCvd == Init /\ [][NextCvd]_vars

\* The trades worker at the hourly rollup
InitHour ==
    /\ InitBook /\ InitCvdHour /\ InitGuards /\ guards_impl = "engine" /\ InitRest
NextCvdHour ==
    \/ ProcessHourTrade /\ UNCHANGED except_cvdVars
    \/ Stop /\ UNCHANGED except_cvdVars
SpecCvdHour == InitHour /\ [][NextCvdHour]_vars

\* The venue feeds: connections, backoff and one kind of event per venue
NextLiqFeeds ==
    \/ (\E v \in Venues : ConnectFails(v)) /\ UNCHANGED except_liqVars
    \/ (\E v \in Venues : Connects(v)) /\ UNCHANGED except_liqVars
    \/ (\E v \in Venues : Drops(v)) /\ UNCHANGED except_liqVars
    \/ (\E v \in Venues : Wakes(v)) /\ UNCHANGED except_liqVars
    \/ BinanceMessage(OneBinanceOrder) /\ UNCHANGED except_liqVars
    \/ BatchMessage("okx", {<<i>> : i \in OneOkxItem}) /\ UNCHANGED except_liqVars
    \/ BatchMessage("bybit", {<<i>> : i \in OneBybitItem}) /\ UNCHANGED except_liqVars
    \/ (\E v \in {"okx", "bybit"} : ProcessItem(v)) /\ UNCHANGED except_liqVars
SpecLiqFeeds == Init /\ [][NextLiqFeeds]_vars

\* The three handlers filling the persistence buffer
NextLiqBuffer ==
    \/ BinanceMessage(OneBinanceOrder) /\ UNCHANGED except_liqVars
    \/ BatchMessage("okx", Batches(OneOkxItem)) /\ UNCHANGED except_liqVars
    \/ BatchMessage("bybit", Batches(OneBybitItem)) /\ UNCHANGED except_liqVars
    \/ (\E v \in {"okx", "bybit"} : ProcessItem(v)) /\ UNCHANGED except_liqVars
    \/ Tick /\ UNCHANGED except_liqVars
SpecLiqBuffer == InitNearFlush /\ [][NextLiqBuffer]_vars

\* The liquidation topic: the three feeds connected, every kind of event, and
\* the clock
NextLiqTopic ==
    \/ BinanceMessage(BinanceOrders(liq_now)) /\ UNCHANGED except_liqVars
    \/ BatchMessage("okx", Batches(OkxItems(liq_now))) /\ UNCHANGED except_liqVars
    \/ BatchMessage("bybit", Batches(BybitItems(liq_now))) /\ UNCHANGED except_liqVars
    \/ (\E v \in {"okx", "bybit"} : ProcessItem(v)) /\ UNCHANGED except_liqVars
    \/ Tick /\ UNCHANGED except_liqVars
SpecLiqTopic == InitConnected /\ [][NextLiqTopic]_vars

NextRunLoop ==
    \/ WsConnectFails /\ UNCHANGED except_runVars
    \/ WsConnects /\ UNCHANGED except_runVars
    \/ WsStaysUp /\ UNCHANGED except_runVars
    \/ WsDrops /\ UNCHANGED except_runVars
    \/ WsWakes /\ UNCHANGED except_runVars
    \/ WsStop /\ UNCHANGED except_runVars
SpecRunLoop == Init /\ [][NextRunLoop]_vars

\* The webhook endpoint, with and without a configured secret
InitEitherSecret ==
    /\ InitBook /\ InitCvd /\ InitGuards /\ guards_impl = "engine"
    /\ InitTopic /\ InitLiq /\ InitRun
    /\ InitHookState /\ hook_secret \in HookSecrets
    /\ InitPoll /\ InitScan /\ InitLiqMap /\ InitEngine /\ InitCompare /\ InitBar
NextWebhook ==
    \/ (\E h \in Requests : Submit(h)) /\ UNCHANGED except_hookVars
    \/ (\E h \in Requests : CheckDuplicate(h)) /\ UNCHANGED except_hookVars
    \/ (\E h \in Requests : AddToDedup(h)) /\ UNCHANGED except_hookVars
    \/ (\E h \in Requests : PublishEvent(h)) /\ UNCHANGED except_hookVars
    \/ DedupExpires /\ UNCHANGED except_hookVars
SpecWebhook == InitEitherSecret /\ [][NextWebhook]_vars

NextPoll == PollOnce /\ UNCHANGED except_pollVars
SpecPoll == Init /\ [][NextPoll]_vars

NextBar ==
    \/ BarAddTrade /\ UNCHANGED except_barVars
    \/ BarFinalize /\ UNCHANGED except_barVars
SpecBar == Init /\ [][NextBar]_vars

NextCompare == CompareGetGuards /\ UNCHANGED except_compareVars
SpecCompare == Init /\ [][NextCompare]_vars

\* The polling loop of run().  poll_once comes back (every fetch has
\* timeout=10 and the event loop resumes the coroutine) and asyncio.sleep
\* returns after POLL_INTERVAL: both steps are weakly fair.  stop() is the
\* operator's and has no fairness.
NextPollLoop ==
    \/ RunPollReturns /\ UNCHANGED except_pollVars
    \/ RunPollRaises /\ UNCHANGED except_pollVars
    \/ RunSleepReturns /\ UNCHANGED except_pollVars
    \/ PollStop /\ UNCHANGED except_pollVars
SpecPollLoop ==
    /\ Init
    /\ [][NextPollLoop]_vars
    /\ WF_vars((RunPollReturns \/ RunPollRaises) /\ UNCHANGED except_pollVars)
    /\ WF_vars(RunSleepReturns /\ UNCHANGED except_pollVars)

NextScan ==
    \/ ProcessAccount /\ UNCHANGED except_scanVars
    \/ Estimate /\ UNCHANGED except_scanVars
SpecScan == Init /\ [][NextScan]_vars

NextLiqMap ==
    \/ GetLiqMapFromStream /\ UNCHANGED except_lmapVars
    \/ GetLiqMapFromFiles /\ UNCHANGED except_lmapVars
SpecLiqMap == Init /\ [][NextLiqMap]_vars

NextEngine ==
    \/ PlaceOrderRecord /\ UNCHANGED except_engineVars
    \/ PlaceOrderPublish /\ UNCHANGED except_engineVars
    \/ PlaceOrderReturn /\ UNCHANGED except_engineVars
    \/ CancelOrder /\ UNCHANGED except_engineVars
    \/ KillSwitchCancel /\ UNCHANGED except_engineVars
    \/ KillSwitchReturn /\ UNCHANGED except_engineVars
    \/ WebsocketConnect /\ UNCHANGED except_engineVars
    \/ WebsocketDisconnect /\ UNCHANGED except_engineVars
SpecEngine == Init /\ [][NextEngine]_vars

NextTopic == PublishToTopic /\ UNCHANGED except_topicVars
SpecTopic == Init /\ [][NextTopic]_vars

(***************************************************************************)
(* Order book claims                                                       *)
(***************************************************************************)

\* C1: process_update publishes a snapshot only when both sides of the book
\* are non-empty, and every snapshot it publishes has bid_px < ask_px.
C1_PublishedBidBelowAsk ==
    [][book_stream' # book_stream =>
         /\ HasTob(bids', asks')
         /\ book_stream'[Len(book_stream')].bid_px < book_stream'[Len(book_stream')].ask_px]_vars

\* The half of C1 the code does guarantee: nothing is published from a book
\* with an empty side.
C1_PublishedOnlyWithBothSides ==
    [][book_stream' # book_stream => HasTob(bids', asks')]_vars

\* C2: no level with quantity 0 is stored; a level whose most recent diff
\* carried 0 is absent, a level whose most recent diff carried q # 0 is
\* present with exactly q.
SideMatchesDiffs(side, seen) ==
    /\ \A p \in DOMAIN side : side[p] # 0
    /\ \A p \in DOMAIN seen :
          IF seen[p] = 0 THEN p \notin DOMAIN side
          ELSE p \in DOMAIN side /\ side[p] = seen[p]

C2_NoZeroLevelStored ==
    /\ SideMatchesDiffs(bids, seen_b)
    /\ SideMatchesDiffs(asks, seen_a)

\* A bid level has been zeroed by its last diff while an ask level holds the
\* largest quantity and another bid level is still stored.
C2_Witness ==
    /\ \E p \in DOMAIN seen_b : seen_b[p] = 0
    /\ \E p \in DOMAIN bids : bids[p] = 1
    /\ \E p \in DOMAIN asks : asks[p] = MaxQty

(***************************************************************************)
(* Trade bar claims                                                        *)
(***************************************************************************)
\* The window a timestamp floors to
Window(ts) == MINUTE_MS * (ts \div MINUTE_MS)

NonDecreasing(log) ==
    \A i \in 1..Len(log) : \A j \in i..Len(log) : log[i].timestamp <= log[j].timestamp

RECURSIVE SumOver(_, _, _)
SumOver(ts, F(_), i) == IF i > Len(ts) THEN 0 ELSE F(ts[i]) + SumOver(ts, F, i + 1)

\* The bar of window w computed at once from the trades ts of that window
BatchBar(w, ts) ==
    LET Qty(t) == t.quantity
        BuyQty(t) == IF t.is_buyer_maker THEN 0 ELSE t.quantity
        SellQty(t) == IF t.is_buyer_maker THEN t.quantity ELSE 0
        Notional(t) == t.price * t.quantity
        vol == SumOver(ts, Qty, 1)
        prices == {ts[i].price : i \in 1..Len(ts)}
    IN [timestamp |-> w,
        open |-> ts[1].price, high |-> SetMax(prices), low |-> SetMin(prices),
        close |-> ts[Len(ts)].price,
        volume |-> vol, buy_volume |-> SumOver(ts, BuyQty, 1),
        sell_volume |-> SumOver(ts, SellQty, 1),
        cvd |-> SumOver(ts, BuyQty, 1) - SumOver(ts, SellQty, 1),
        vwap |-> IF vol > 0 THEN [num |-> SumOver(ts, Notional, 1), den |-> vol]
                 ELSE [num |-> ts[Len(ts)].price, den |-> 1],
        trade_count |-> Len(ts)]

RECURSIVE SortedSeq(_)
SortedSeq(S) == IF S = {} THEN <<>> ELSE <<SetMin(S)>> \o SortedSeq(S \ {SetMin(S)})

\* One bar per window holding a trade, in increasing window order
ExpectedBars(log) ==
    LET ws == SortedSeq({Window(log[i].timestamp) : i \in 1..Len(log)})
        InWindow(w) == SelectSeq(log, LAMBDA t : Window(t.timestamp) = w)
    IN [k \in 1..Len(ws) |-> BatchBar(ws[k], InWindow(ws[k]))]

\* The bars handed to the event log, in order
EmittedBars == [i \in 1..Len(xadd_log) |-> xadd_log[i].bar]

C4_LateTradeIgnored ==
    [][(/\ trade_log' # trade_log
        /\ aggregator.current_minute # None
        /\ Window(trade_log'[Len(trade_log')].timestamp) < aggregator.current_minute[1])
       => (/\ aggregator' = aggregator
           /\ xadd_log' = xadd_log
           /\ bars_buffer' = bars_buffer)]_vars

\* C5: emitted bars have strictly increasing window starts, and a bar once
\* emitted is never changed or emitted again.
StrictlyIncreasing(bars) ==
    \A i \in 1..Len(bars) : \A j \in (i + 1)..Len(bars) :
        bars[i].timestamp < bars[j].timestamp

IsPrefix(s, t) == Len(s) <= Len(t) /\ SubSeq(t, 1, Len(s)) = s

C5_SealedOnce ==
    [][/\ StrictlyIncreasing(EmittedBars')
       /\ StrictlyIncreasing(trades_stream')
       /\ IsPrefix(xadd_log, xadd_log')
       /\ IsPrefix(trades_stream, trades_stream')]_vars

\* A late trade (window 0 after window 60000 opened) was taken in after a bar
\* was sealed, and the run has ended with two bars emitted.
C5_Witness ==
    /\ cvd_pc = "stopped"
    /\ ~NonDecreasing(trade_log)
    /\ Len(xadd_log) = 2
    /\ Window(trade_log[Len(trade_log)].timestamp) < xadd_log[2].bar.timestamp

\* C6: stop() with a bar open hands exactly one bar, the open one, to the
\* event log while the connection is still open; with no bar open, and on a
\* second call, it publishes nothing.
C6_StopFlushesOnce ==
    [][stop_calls' = stop_calls + 1 =>
         IF aggregator.open # None /\ stop_calls = 0
         THEN /\ Len(xadd_log') = Len(xadd_log) + 1
              /\ IsPrefix(xadd_log, xadd_log')
              /\ xadd_log'[Len(xadd_log')].redis = "open"
              /\ xadd_log'[Len(xadd_log')].bar.timestamp = aggregator.current_minute[1]
              /\ xadd_log'[Len(xadd_log')].bar.trade_count = aggregator.trade_count
              /\ aggregator'.open = None
              /\ cvd_redis' = "closed"
         ELSE /\ xadd_log' = xadd_log
              /\ trades_stream' = trades_stream]_vars

\* stop() has run twice after a bar was open: the bar is in the log once and
\* the connection is closed.
C6_Witness ==
    /\ stop_calls = 2
    /\ Len(trade_log) = 1
    /\ Len(xadd_log) = 1
    /\ cvd_redis = "closed"

(***************************************************************************)
(* Guard claims                                                            *)
(***************************************************************************)
Answered == guard_response # None
Snapshot == guard_response[1]

\* The provenance a snapshot reports for a metric: routers/engine.py carries
\* one data_source for the whole snapshot, routers/guards.py one per metric
ReportedMetrics ==
    IF guards_impl = "engine" THEN {"book", "funding", "liquidations", "basis"}
    ELSE {"book", "funding", "liquidations"}
Provenance(metric) ==
    IF guards_impl = "engine" THEN Snapshot.data_source
    ELSE Snapshot.data_sources[metric]

\* Thresholds crossed by the metrics a snapshot reports
SpreadCrossed == Snapshot.spread_bps > Tenths(SPREAD_MAX_BPS)
DepthCrossed ==
    Snapshot.depth_bid_usd < MIN_DEPTH_USD \/ Snapshot.depth_ask_usd < MIN_DEPTH_USD
FundingCrossed == Abs(Snapshot.funding_apr) > MAX_FUNDING_APR
LiqCrossed == Snapshot.liq_events_5m > MAX_LIQ_5M

\* routers/guards.py looks at a threshold only when the entry behind it was
\* read; routers/engine.py takes a missing entry as zeros
BookRead == guards_impl = "engine" \/ Snapshot.data_sources.book = "live"
FundingRead == guards_impl = "engine" \/ Snapshot.data_sources.funding = "live"

ReasonsWhen(spread, depth, funding, liq) ==
    (IF spread THEN <<Reason("spread", Snapshot.spread_bps)>> ELSE <<>>)
    \o (IF depth
        THEN <<Reason("depth", Min(Snapshot.depth_bid_usd, Snapshot.depth_ask_usd))>>
        ELSE <<>>)
    \o (IF funding THEN <<Reason("funding", Snapshot.funding_apr)>> ELSE <<>>)
    \o (IF liq THEN <<Reason("liquidations", Snapshot.liq_events_5m)>> ELSE <<>>)

IsFallbackSnapshot ==
    /\ Snapshot.status = "passing"
    /\ Snapshot.liq_events_5m = 0
    /\ Snapshot.warnings = <<>>
    /\ \A metric \in ReportedMetrics : Provenance(metric) = "fallback"

\* C9: a call in which a read of the event log raised answers with the
\* fallback snapshot - passing, no liquidations, no warnings, every source
\* marked fallback.
C9_ReadFailureGivesFallback ==
    (Answered /\ \E metric \in DOMAIN guard_reads : guard_reads[metric] = "failed")
        => IsFallbackSnapshot

\* C10: a metric whose read raised or found no entry in the call is not
\* reported with provenance live.
C10_LiveOnlyWhenRead ==
    Answered =>
        \A metric \in ReportedMetrics :
            Provenance(metric) = "live" => guard_reads[metric] \notin {"failed", "empty"}

(***************************************************************************)
(* Event log claims                                                        *)
(***************************************************************************)
\* The n most recent appends, in append order
NewestAppends(n) == [i \in 1..n |-> topic_appended - n + i]

\* C11: a topic never holds more entries than its maxlen, and what it holds
\* are the most recently appended entries, in append order.
C11_TopicWithinMaxlen ==
    /\ Len(topic) <= BOOK_MAXLEN
    /\ topic = NewestAppends(Len(topic))

\* The part of C11 that holds: eviction is oldest-first
C11_RetainedAreNewest == topic = NewestAppends(Len(topic))

(***************************************************************************)
(* Liquidation feed claims                                                 *)
(***************************************************************************)
\* Appends to the liquidation topic made in the five minutes up to now
AppendedRecently ==
    Cardinality({i \in 1..Len(liq_appended) : liq_appended[i] >= liq_now - FIVE_MIN_MS})

C17_FeedsIndependent ==
    /\ [][\A v \in Venues :
             liq_pc'[v] = liq_pc[v] => reconnect_delays'[v] = reconnect_delays[v]]_vars
    /\ [](\A v \in {"okx", "bybit"} : pending[v] # <<>> => ENABLED ProcessItem(v))
    /\ []((liq_pc["binance"] = "connected" /\ Handled + Waiting < MaxLiqs)
             => ENABLED BinanceMessage(OneBinanceOrder))

\* Binance has backed off twice and is asleep, Bybit is still connecting, and
\* an OKX event is on the topic with the OKX delay at its minimum
C17_Witness ==
    /\ liq_pc["binance"] = "sleeping"
    /\ reconnect_delays["binance"] > RECONNECT_DELAY_MIN
    /\ liq_pc["bybit"] = "connecting"
    /\ liq_pc["okx"] = "connected"
    /\ reconnect_delays["okx"] = RECONNECT_DELAY_MIN
    /\ \E i \in 1..Len(liq_stream) : liq_stream[i].liq.venue = "okx"

\* C19: every event on the liquidation topic has side 'long' or 'short'.
C19_SideIsCanonical ==
    \A i \in 1..Len(liq_stream) : liq_stream[i].liq.side \in {"long", "short"}

(***************************************************************************)
(* Reconnection claims                                                     *)
(***************************************************************************)
DelayInRange ==
    reconnect_delay \in RECONNECT_DELAY_MIN..RECONNECT_DELAY_MAX

\* C15 as stated: the delay stays within [1, 60], and the wait after k failed
\* attempts in a row is min(2^k, 60).
C15_WaitAfterKFailures ==
    /\ DelayInRange
    /\ ws_pc = "sleeping" => reconnect_delay = Min(2^ws_fails, RECONNECT_DELAY_MAX)

\* C15 amended: the delay stays within [1, 60]; the wait after k failed
\* attempts in a row is min(2^k, 60) once a connection has been made (the
\* wait that follows the drop of that connection being the first, of 1 s)
\* and min(2^(k-1), 60) before the first connection.
C15_WaitDoublesFromReset ==
    /\ DelayInRange
    /\ ws_pc = "sleeping" =>
          reconnect_delay =
              Min(2^(IF ws_connected_once THEN ws_fails ELSE ws_fails - 1),
                  RECONNECT_DELAY_MAX)

\* The wait has reached the cap and stays there
C15_Witness ==
    /\ ws_pc = "sleeping"
    /\ ws_fails = MaxFails
    /\ reconnect_delay = RECONNECT_DELAY_MAX

\* C16: the delay goes back to the minimum only while a connection is up and
\* has lasted some time; making a connection does not by itself reset it.
C16_ResetOnlyAfterGrace ==
    [][reconnect_delay' < reconnect_delay => (ws_pc = "connected" /\ ws_uptime' > 0)]_vars

(***************************************************************************)
(* Webhook claims                                                          *)
(***************************************************************************)

\* C13: when a webhook secret is configured, a submission that carries no
\* signature or an invalid one is rejected, and none of its events is
\* deduplicated or published: every request being processed, every
\* is_duplicate call and every entry of the on-chain event topic stems from a
\* validly signed submission.
C13_UnsignedRejected ==
    hook_secret # "" =>
        /\ \A h \in Requests : hook_pc[h] # "idle" => hook_signed[h]
        /\ \A signed \in hook_checked : signed
        /\ \A i \in 1..Len(drift_stream) : drift_stream[i].signed

\* C14: within one dedup window each event id is published onto the on-chain
\* event topic at most once, whatever the batches and however concurrently
\* handled batches interleave.
C14_PublishedOncePerWindow ==
    \A i, j \in 1..Len(drift_stream) :
        (i < j /\ drift_stream[i].window = drift_stream[j].window)
            => drift_stream[i].signature # drift_stream[j].signature

(***************************************************************************)
(* Funding poller claims                                                   *)
(***************************************************************************)

\* An API response that carried a row: no timeout, HTTP 200, retCode 0 and a
\* non-empty list
FetchSucceeded(resp) ==
    ~resp.timeout /\ resp.status = 200 /\ resp.retCode = 0 /\ Len(resp.list) > 0
CycleSucceeded(log) ==
    /\ FetchSucceeded(log.oi)
    /\ FetchSucceeded(log.funding)
    /\ FetchSucceeded(log.ticker)

\* C18: poll_once is all-or-nothing.  A cycle in which any of the three
\* fetches failed, timed out or returned no rows publishes nothing, buffers
\* nothing and writes nothing; a cycle that publishes or buffers a snapshot is
\* one in which all three fetches succeeded.
C18_AllOrNothing ==
    [][~CycleSucceeded(poll_log'[1]) =>
            /\ funding_stream' = funding_stream
            /\ snapshots_buffer' = snapshots_buffer
            /\ funding_parquet' = funding_parquet]_pollVars

\* A cycle with a failed fetch has followed two published snapshots
C18_Witness ==
    /\ poll_log # None
    /\ ~CycleSucceeded(poll_log[1])
    /\ Len(funding_stream) = 2
    /\ Len(snapshots_buffer) = 2

(***************************************************************************)
(* Liquidation map claims                                                  *)
(***************************************************************************)

\* The price the margin equation gives, p = (C - q*avg) / (m*|q| - q), is
\* finite and positive
EquationPricePositive(position, m) ==
    (position.collateral_usd - position.position_size * position.avg_entry_price)
        * (m.num * Abs(position.position_size) - m.den * position.position_size) > 0

\* C20: process_account emits no estimate whenever the liquidation price is
\* non-positive, the zero denominator and the zero position size included,
\* and every estimate emitted or published has est_liq_px > 0.
C20_EmittedPricePositive ==
    /\ \A i \in 1..Len(liq_map_stream) : RatPositive(liq_map_stream[i].est_liq_px)
    /\ est_input # None =>
         LET position == est_input[1].position IN
         /\ est_output # None => RatPositive(est_output[1].est_liq_px)
         /\ position.position_size = 0 => est_output = None
         /\ ~EquationPricePositive(position, DEFAULT_MMR) => est_output = None
         /\ est_input[1].mmr.num * Abs(position.position_size)
               = est_input[1].mmr.den * position.position_size
               => ~RatPositive(est_calc[1].liq_price)

\* The position of the example (q = 10, avg = 180, C = 5000, p = 190) has been
\* discarded after a short position's estimate was published
C20_Witness ==
    /\ est_input # None
    /\ est_input[1].position.position_size = 10
    /\ est_input[1].position.collateral_usd = 5000
    /\ est_input[1].oracle_price = 190
    /\ est_output = None
    /\ Len(liq_map_stream) = 1

\* r >= k and r <= k for a rational r and a whole number k
RatGeq(r, k) == IF r.den > 0 THEN r.num >= k * r.den ELSE r.num <= k * r.den
RatLeq(r, k) == IF r.den > 0 THEN r.num <= k * r.den ELSE r.num >= k * r.den
\* The position is past liquidation at the oracle price: a long with the
\* oracle price at or below its liquidation price, a short with it at or above
PastLiquidation(estimate, oracle_price) ==
    \/ estimate.position_size > 0 /\ RatGeq(estimate.est_liq_px, oracle_price)
    \/ estimate.position_size < 0 /\ RatLeq(estimate.est_liq_px, oracle_price)

C22_BasisZeroWhenPriceMissing ==
    (guard_response # None /\ guard_reads.basis = "empty")
        => guard_response[1].basis_bps = 0

(***************************************************************************)
(* Liquidation map endpoint claims                                         *)
(***************************************************************************)

\* The distance an entry of the response carries
DistanceOf(entry) ==
    IF "distance_bps" \in DOMAIN entry THEN entry.distance_bps ELSE entry.distanceBps

\* C23: the list get_liq_map returns has at most `limit` entries and is
\* sorted by |distance_bps| in non-decreasing order, whether it comes from
\* the event log or from the persisted fallback.
C23_SortedAndLimited ==
    lm_query # None =>
        /\ Len(lm_response) <= lm_query[1].limit
        /\ \A i, j \in 1..Len(lm_response) :
              i < j => Abs(DistanceOf(lm_response[i])) <= Abs(DistanceOf(lm_response[j]))

\* A request with limit 2 was served three estimates' worth of Parquet rows,
\* the farthest first, and returned the two nearest
C23_Witness ==
    /\ lm_query # None
    /\ lm_query[1].limit = 2
    /\ lm_query[1].stream = <<>>
    /\ lm_query[1].json = None
    /\ lm_query[1].parquet = Some(<<-20, 10, -5>>)
    /\ Len(lm_response) = 2
    /\ lm_response[1].distance_bps = -5

(***************************************************************************)
(* Order bookkeeping claims                                                *)
(***************************************************************************)

\* The step in which kill_switch returns its response
KillSwitchReturns ==
    /\ kill_pc' = None
    /\ \/ kill_pc # None
       \/ /\ Len(activity_log') = Len(activity_log) + 1
          /\ activity_log'[Len(activity_log')] = "kill_switch"

\* C24: when kill_switch returns, no order of the table has status
\* 'submitted' or 'open', the cancelled count it returns is the number of
\* orders that had one of those statuses just before the call, and the
\* orders of any other status are unchanged.
C24_NoActiveOrderAfterKill ==
    [][KillSwitchReturns =>
          /\ Active(orders') = {}
          /\ eng_last'[1].cancelled = Cardinality(Active(eng_last'[1].before))
          /\ \A id \in DOMAIN eng_last'[1].before :
                eng_last'[1].before[id] \notin ActiveStatuses
                    => orders'[id] = eng_last'[1].before[id]]_engineVars

\* The step in which place_order records its order
PlaceOrderRecords == place_pc = None /\ place_pc' # None

\* The step in which place_order returns its response
PlaceOrderReturns == place_pc # None /\ place_pc' = None

\* The step that is one whole cancel_order request
CancelOrderAnswers ==
    /\ eng_last' # None
    /\ eng_last'[1].op = "cancel"
    /\ UNCHANGED <<intent_stream, place_pc, kill_pc, active_clients>>

\* C25: the order id place_order returns was recorded in the order table with
\* status 'submitted' and is in the table when the response leaves, whether
\* or not the intent reached the event log; cancel_order answers 200 exactly
\* for the ids of the table and sets their status to 'cancelled'; for an
\* unknown id it answers 404 and leaves the table and the activity log alone.
C25_PlacedRecordedCancelKnownOnly ==
    [][/\ PlaceOrderRecords =>
            /\ place_pc'[1].order_id \notin DOMAIN orders
            /\ orders' = DictSet(orders, place_pc'[1].order_id, "submitted")
       /\ PlaceOrderReturns =>
            /\ eng_last'[1].op = "place"
            /\ eng_last'[1].order_id = place_pc[1].order_id
            /\ eng_last'[1].order_id \in DOMAIN orders'
            /\ orders' = orders
       /\ CancelOrderAnswers =>
            LET order_id == eng_last'[1].order_id IN
            /\ eng_last'[1].code \in {200, 404}
            /\ eng_last'[1].code = 200 <=> order_id \in DOMAIN orders
            /\ eng_last'[1].code = 200 =>
                 /\ orders'[order_id] = "cancelled"
                 /\ DOMAIN orders' = DOMAIN orders
                 /\ \A id \in DOMAIN orders \ {order_id} : orders'[id] = orders[id]
            /\ eng_last'[1].code = 404 =>
                 /\ orders' = orders
                 /\ activity_log' = activity_log]_engineVars

\* Order 1 was placed while the publish failed and was then cancelled; the
\* cancellation of the unknown order 2 has just been refused
C25_Witness ==
    /\ place_pc = None
    /\ intent_stream = <<>>
    /\ orders = DictSet(EmptyDict, 1, "cancelled")
    /\ activity_log = <<"order_submitted", "order_cancelled">>
    /\ eng_last = Some([op |-> "cancel", code |-> 404, order_id |-> 2,
                        cancelled |-> 0, before |-> orders])

(***************************************************************************)
(* Webhook ordering claim                                                  *)
(***************************************************************************)

\* The handler of request h takes a step of process_events
Processes(h) ==
    /\ hook_pc[h] \in {"checking", "adding", "publishing"}
    /\ hook_pc'[h] # hook_pc[h] \/ hook_queue'[h] # hook_queue[h]

\* C26: a request whose supplied signature fails verification is answered
\* at once and never reaches process_events: the step that receives it adds
\* nothing to the dedup set, the event topic or the persistence buffer, and
\* every later addition to one of them is made by the handler of a request
\* whose signature did not fail.
C26_RejectedAddsNothing ==
    [][/\ \A h \in Requests :
            hook_mismatch'[h] =>
               /\ hook_pc'[h] = "idle"
               /\ hook_queue'[h] = <<>>
               /\ hook_response'[h] = 500
       /\ hook_submitted' # hook_submitted =>
               /\ dedup_set' = dedup_set
               /\ drift_stream' = drift_stream
               /\ event_buffer' = event_buffer
       /\ (~(dedup_set' \subseteq dedup_set) \/ drift_stream' # drift_stream
              \/ event_buffer' # event_buffer) =>
               \E h \in Requests : Processes(h) /\ ~hook_mismatch[h]]_hookVars

\* Request 1 came with a wrong signature and was refused while request 2 is
\* about to publish an event
C26_Witness ==
    /\ hook_mismatch[1]
    /\ hook_response[1] = 500
    /\ hook_pc[2] = "publishing"

(***************************************************************************)
(* Read-through cache claims                                               *)
(***************************************************************************)

\* guards.cache holds a value for key that is younger than CACHE_TTL at t
KeyFresh(key, t) ==
    /\ key \in DOMAIN cache_timestamps
    /\ t - cache_timestamps[key] < CACHE_TTL
\* engine.guards_cache is younger than CACHE_TTL at t
SnapshotFresh(t) == guards_cache_time # None /\ t - guards_cache_time[1] < CACHE_TTL
\* basis._basis_cache is younger than CACHE_TTL at t
BasisFresh(t) == basis_cache_time # None /\ t - basis_cache_time[1] < CACHE_TTL

\* The read of the event log that fills each key of guards.cache
ReadOf(key) == IF key = "liq_count" THEN "liquidations" ELSE key

\* guards.cache across a call at time guard_now': young values are returned
\* unread, older ones are read again and replaced
TimedKeys ==
    \A key \in {"book", "funding", "liq_count"} :
       IF KeyFresh(key, guard_now')
       THEN /\ guard_reads'[ReadOf(key)] = "none"
            /\ cache'[key] = cache[key]
            /\ cache_timestamps'[key] = cache_timestamps[key]
       ELSE key \in DOMAIN cache_timestamps =>
            /\ guard_reads'[ReadOf(key)] # "none"
            /\ cache_timestamps'[key] = guard_now'

\* engine.guards_cache across a call at time guard_now'
TimedSnapshot ==
    IF SnapshotFresh(guard_now')
    THEN /\ guard_reads' = NoReads
         /\ guard_response' = guards_cache
         /\ UNCHANGED <<guards_cache, guards_cache_time>>
    ELSE guards_cache_time # None =>
         /\ guard_reads'.book # "none"
         /\ guards_cache_time' = Some(guard_now')
         /\ guard_response' = guards_cache'

\* basis._basis_cache across a call of get_basis at time guard_now'
TimedBasis ==
    guard_reads'.book \in {"ok", "empty"} =>
       IF BasisFresh(guard_now')
       THEN /\ guard_reads'.basis = "none"
            /\ UNCHANGED <<basis_cache, basis_cache_time>>
       ELSE basis_cache_time # None =>
            /\ guard_reads'.basis # "none"
            /\ basis_cache_time' = Some(guard_now')

\* C27: a read made less than CACHE_TTL after a value was cached returns the
\* cached value without reading the event log, and the first read made at or
\* after CACHE_TTL reads the event log again and replaces the cached value.
C27_CachesExpireByTimeOnly ==
    [][IF guards_impl = "guards" THEN TimedKeys
       ELSE TimedSnapshot /\ TimedBasis]_guardVars

\* engine.guards_cache across a call at time guard_now', a failed read
\* leaving the cache as it was
TimedSnapshotUnlessFailed ==
    IF guard_reads'.book = "failed"
    THEN /\ ~SnapshotFresh(guard_now')
         /\ guard_response' = Some(EngineFallback)
         /\ UNCHANGED <<guards_cache, guards_cache_time>>
    ELSE TimedSnapshot

\* basis._basis_cache across a call of get_basis at time guard_now', a read
\* that finds a price missing leaving the cache as it was
TimedBasisUnlessEmpty ==
    IF guard_reads'.basis = "empty"
    THEN /\ ~BasisFresh(guard_now')
         /\ UNCHANGED <<basis_cache, basis_cache_time>>
    ELSE TimedBasis

\* C27, amended: a read made less than CACHE_TTL after a value was cached
\* returns the cached value without reading the event log; the first read
\* made at or after CACHE_TTL reads the event log again, and replaces the
\* cached value unless that read fails (engine.guards_cache) or finds a
\* price missing (the basis cache), in which case the cache is left as it
\* was and the next read tries again.
C27_ReplacedUnlessReadFails ==
    [][IF guards_impl = "guards" THEN TimedKeys
       ELSE TimedSnapshotUnlessFailed /\ TimedBasisUnlessEmpty]_guardVars

\* A call at 9 found the snapshot cached at 4 expired and replaced it, while
\* its basis read found a price missing and left the basis cached at 4
C27_Witness ==
    /\ guards_impl = "engine"
    /\ guard_now = 9
    /\ guards_cache_time = Some(9)
    /\ basis_cache_time = Some(4)
    /\ guard_reads.basis = "empty"

(***************************************************************************)
(* Concurrent get_guards claim                                             *)
(***************************************************************************)

\* Every snapshot lines 231-288 can build from what the reads return
CompleteSnapshots ==
    {Some(EngineEvaluate(b, f, l, v)) :
        b \in RaceBooks, f \in RaceFundings, l \in RaceLiqs, v \in {0, 100}}

\* The step in which handler h returns its response
GetGuardsReturns(h) ==
    /\ gg_pc'[h] = "idle"
    /\ gg_pc[h] # "idle" \/ gg_calls'[h] # gg_calls[h]

\* C28: in every interleaving of concurrent get_guards handlers, a handler
\* returns the fixed fallback, the cached snapshot together with a time
\* stamp (never the empty initial cache), or the complete snapshot it has
\* just computed and cached; the cached snapshot and its time stamp are
\* always written in one step by the handler that computed the snapshot, so
\* a race costs a recomputation and nothing else.
C28_NoPartialCacheState ==
    [][/\ \A h \in Handlers :
            GetGuardsReturns(h) =>
               \/ gg_response'[h] = Some(EngineFallback)
                     /\ UNCHANGED <<guards_cache, guards_cache_time>>
               \/ /\ guards_cache_time # None
                  /\ gg_response'[h] = guards_cache
                  /\ guards_cache \in CompleteSnapshots
                  /\ UNCHANGED <<guards_cache, guards_cache_time>>
               \/ /\ gg_response'[h] \in CompleteSnapshots
                  /\ guards_cache' = gg_response'[h]
                  /\ guards_cache_time' = Some(guard_now')
       /\ (guards_cache' # guards_cache \/ guards_cache_time' # guards_cache_time) =>
               \E h \in Handlers :
                  /\ GetGuardsReturns(h)
                  /\ guards_cache' = gg_response'[h]
                  /\ guards_cache_time' = Some(guard_now')
       /\ (guards_cache_time' = None) = (guards_cache' = None)]_guardVars

\* Both handlers missed the cache; handler 1 has computed, cached and
\* returned its snapshot while handler 2 is still fetching the prices
C28_Witness ==
    /\ gg_calls = [h \in Handlers |-> 1]
    /\ gg_pc[1] = "idle"
    /\ gg_pc[2] = "pricing"
    /\ gg_response[1] # None
    /\ gg_response[1] = guards_cache

(***************************************************************************)
(* Book throttle claim                                                     *)
(***************************************************************************)

\* The book that all the diffs received so far add up to: each price at the
\* last quantity a diff carried for it, the zeroed prices left out
BookOfDiffs(seen) ==
    [p \in {x \in DOMAIN seen : seen[x] # 0} |-> seen[p]]

\* C29: two successively published book snapshots are at least
\* PUBLISH_INTERVAL apart, every received diff is applied to the book whether
\* or not a snapshot is emitted for it, and each published snapshot is the
\* snapshot of the book that all the diffs received so far add up to.
C29_ThrottledWithoutDroppingDiffs ==
    [][/\ bids' = BookOfDiffs(seen_b')
       /\ asks' = BookOfDiffs(seen_a')
       /\ book_stream' # book_stream =>
            /\ book_now' - last_publish_time >= PUBLISH_INTERVAL
            /\ last_publish_time' = book_now'
            /\ book_stream'[Len(book_stream')] =
                  GetSnapshot(BookOfDiffs(seen_b'), BookOfDiffs(seen_a'))]_bookVars

\* A snapshot was published at time 1 and a later diff of the same second
\* changed the book without a snapshot being emitted for it
C29_Witness ==
    /\ Len(book_stream) = 1
    /\ last_publish_time = 1
    /\ book_now = 1
    /\ HasTob(bids, asks)
    /\ GetSnapshot(bids, asks) # book_stream[1]

(***************************************************************************)
(* Failed publish claim                                                    *)
(***************************************************************************)

\* The stream is as it was or has this one entry more
SameOrAppended(before, after, entry) ==
    after = before \/ after = Append(before, entry)

\* The book worker across one message: when a snapshot is due the clock of
\* the throttle moves whether or not the xadd succeeded
BookPublishSwallowed ==
    /\ bids' = BookOfDiffs(seen_b')
    /\ asks' = BookOfDiffs(seen_a')
    /\ IF book_now' - last_publish_time >= PUBLISH_INTERVAL /\ HasTob(bids', asks')
       THEN /\ last_publish_time' = book_now'
            /\ SameOrAppended(book_stream, book_stream', GetSnapshot(bids', asks'))
       ELSE UNCHANGED <<book_stream, last_publish_time>>

\* The trade worker across one message: the bar handed to xadd is buffered
\* and the trade is taken into the next bar whether or not the xadd succeeded
BarPublishSwallowed ==
    /\ cvd_pc = "running" => cvd_pc' = "running"
    /\ IF xadd_log' # xadd_log
       THEN LET bar == xadd_log'[Len(xadd_log')].bar IN
            /\ xadd_log' = Append(xadd_log, xadd_log'[Len(xadd_log')])
            /\ SameOrAppended(trades_stream, trades_stream', bar)
            /\ bars_buffer' = Append(bars_buffer, bar)
            /\ trade_log' # trade_log
            /\ aggregator'.current_minute =
                  Some(MinuteTs(trade_log'[Len(trade_log')].timestamp))
            /\ aggregator'.open # None
       ELSE trades_stream' = trades_stream

\* The liquidation worker across one item of a message
LiquidationPublishSwallowed ==
    /\ \A v \in {"okx", "bybit"} :
          (pending[v] # <<>> /\ pending'[v] = Tail(pending[v])) =>
             LET item == Head(pending[v])
                 wanted == IF v = "okx" THEN IsSolUsdt(item.instId)
                           ELSE item.symbol = "SOLUSDT"
                 liq == IF v = "okx" THEN LiquidationOfOkx(item, liq_now)
                        ELSE LiquidationOfBybit(item, liq_now)
             IN IF wanted
                THEN /\ liq_buffer' = liq_buffer + 1
                     /\ SameOrAppended(liq_stream, liq_stream',
                                       [id |-> liq_now, liq |-> liq])
                ELSE UNCHANGED <<liq_buffer, liq_stream>>
    /\ liq_stream' # liq_stream =>
          /\ Len(liq_stream') = Len(liq_stream) + 1
          /\ IsPrefix(liq_stream, liq_stream')
          /\ liq_buffer' = liq_buffer + 1
    /\ liq_pc' = liq_pc \/ pending' = pending

\* C30: a failed append to the event log is swallowed and never retried: the
\* worker's state after the message is the one a successful append leaves
\* (the throttle clock moved, the bar or liquidation buffered, the trade
\* taken into the next bar, the next item of the message up), the worker
\* keeps running, and a step appends at most the one record it produced.
C30_FailedPublishSwallowed ==
    /\ [][BookPublishSwallowed]_bookVars
    /\ [][BarPublishSwallowed]_cvdVars
    /\ [][LiquidationPublishSwallowed]_liqVars

\* The second trade sealed the first bar and the append of that bar failed;
\* the bar is buffered, it is not in the stream, and the third trade has been
\* taken into the bar of the second
C30_Witness ==
    /\ Len(trade_log) = 3
    /\ Window(trade_log[1].timestamp) # Window(trade_log[2].timestamp)
    /\ Window(trade_log[3].timestamp) = Window(trade_log[2].timestamp)
    /\ Len(xadd_log) = 1
    /\ trades_stream = <<>>
    /\ bars_buffer = <<xadd_log[1].bar>>
    /\ cvd_pc = "running"

(***************************************************************************)
(* Malformed message claim                                                 *)
(***************************************************************************)

\* C31: a message that fails parsing is dropped as a whole: the book (and
\* what the worker has published and when) is exactly what it was before
\* the message.
C31_MalformedDroppedWhole ==
    [][book_dropped' # book_dropped =>
          UNCHANGED <<bids, asks, book_stream, last_publish_time>>]_bookVars

(***************************************************************************)
(* Polling loop claim                                                      *)
(***************************************************************************)

\* C32: while the worker is running, every poll_once that was started
\* (the one after n finished cycles), whether it publishes, skips or
\* raises, is followed by the start of the next poll_once, unless the
\* worker was stopped in between.
C32_NextCycleScheduled ==
    \A n \in 0..(MaxPolls - 1) :
        (poll_pc = "poll" /\ polls = n)
            ~> ((poll_pc = "poll" /\ polls = n + 1) \/ ~poll_running)

\* The second cycle raised, the first published, and a third poll_once has
\* been started
C32_Witness ==
    /\ poll_pc = "poll"
    /\ poll_running
    /\ polls = 2
    /\ poll_outcome = "raised"
    /\ Len(funding_stream) = 1

(***************************************************************************)
(* Equivalence of the two /guards handlers                                 *)
(***************************************************************************)

\* C33: for every content of the book, funding and liquidation topics,
\* empty topics included, engine.get_guards and guards.get_guards answer
\* with the same status and the same number of warnings.
C33_EvaluatorsAgree ==
    compared # None =>
        /\ compared[1].engine.status = compared[1].guards.status
        /\ Len(compared[1].engine.warnings) = Len(compared[1].guards.warnings)

(***************************************************************************)
(* Kill switch and intents in flight                                       *)
(***************************************************************************)

\* The step in which place_order appends its intent to engine:intents
IntentAppended == Len(intent_stream') = Len(intent_stream) + 1

\* C34: no intent is appended to engine:intents for an order whose status the
\* kill switch has already set to 'cancelled'.
C34_NoIntentAfterKill ==
    [][IntentAppended => place_pc[1].order_id \notin killed]_engineVars

(***************************************************************************)
(* Webhook bookkeeping claim                                               *)
(***************************************************************************)

\* The signatures of the entries of the on-chain event topic
Logged == {drift_stream[i].signature : i \in 1..Len(drift_stream)}

\* C35: the count process_events returns is the number of events of the
\* batch it appended to the topic, and, once no request is in flight, every
\* event id of the dedup set is the id of an entry of the topic.
C35_CountedAndSeenAreLogged ==
    /\ \A h \in Requests :
          hook_pc[h] = "idle" => hook_counts[h].processed = hook_counts[h].appended
    /\ (\A h \in Requests : hook_pc[h] = "idle") => dedup_set \subseteq Logged

(***************************************************************************)
(* Failed reads and the caches                                             *)
(***************************************************************************)

\* C36: a read that failed is not served again from a cache: when a read of
\* a request failed (the fallback snapshot, None or a zero count was
\* answered), the next request makes that read again.
C36_FailedReadNotCached ==
    [][\A k \in DOMAIN guard_reads :
          guard_reads[k] = "failed" => guard_reads'[k] # "none"]_guardVars

(***************************************************************************)
(* Persistence of sealed bars                                              *)
(***************************************************************************)

InSeq(x, seq) == \E i \in 1..Len(seq) : seq[i] = x

\* The step seals the open bar: process_trade meets a later minute, or
\* stop() flushes
SealedInStep ==
    /\ aggregator.open # None
    /\ aggregator'.current_minute # aggregator.current_minute

\* C37: every sealed bar is in bars_buffer or in the columnar file: a step
\* takes no bar out of the buffer unless it wrote it to the file, and the bar
\* a step seals is in the buffer or in the file after the step.
C37_SealedBarsPersisted ==
    [][/\ \A i \in 1..Len(bars_buffer) :
             InSeq(bars_buffer[i], bars_buffer') \/ InSeq(bars_buffer[i], parquet')
       /\ SealedInStep =>
             LET bar == FinalizeBar(aggregator, aggregator.current_minute[1]) IN
             InSeq(bar, bars_buffer') \/ InSeq(bar, parquet')]_cvdVars

(***************************************************************************)
(* Size of the liquidation buffer                                          *)
(***************************************************************************)

\* C38: whenever no handler is in the middle of a message, liq_buffer holds
\* at most LIQ_FLUSH_LEN (100) events.
C38_LiqBufferBounded ==
    (\A v \in Venues : pending[v] = <<>>) => liq_buffer <= LIQ_FLUSH_LEN

(***************************************************************************)
(* Bar arithmetic                                                          *)
(***************************************************************************)

BuyVolume(t) == IF t.is_buyer_maker THEN 0 ELSE t.quantity
SellVolume(t) == IF t.is_buyer_maker THEN t.quantity ELSE 0

\* C39: the bar finalize_bar returns for the trades added since the last
\* reset has volume = buy_volume + sell_volume, cvd = buy_volume -
\* sell_volume, trade_count >= 1, low and high the least and the greatest
\* trade price, open and close the first and the last trade price, and vwap
\* equal to close when the volume is 0.
C39_BarWellFormed ==
    bar_last # None =>
        LET bar == bar_last[1].bar
            ts == bar_last[1].trades
            prices == {ts[i].price : i \in 1..Len(ts)}
        IN /\ bar.volume = bar.buy_volume + bar.sell_volume
           /\ bar.cvd = bar.buy_volume - bar.sell_volume
           /\ bar.buy_volume = SumOver(ts, BuyVolume, 1)
           /\ bar.sell_volume = SumOver(ts, SellVolume, 1)
           /\ bar.trade_count >= 1
           /\ bar.trade_count = Len(ts)
           /\ \A p \in prices : bar.low <= p /\ p <= bar.high
           /\ bar.low \in prices
           /\ bar.high \in prices
           /\ bar.open = ts[1].price
           /\ bar.close = ts[Len(ts)].price
           /\ bar.volume = 0 => bar.vwap = [num |-> bar.close, den |-> 1]

====
